---- MODULE Spec2Model ----
(***************************************************************************)
(* A model of distcache: the LRU shard (package lru), the request          *)
(* coalescer (package singleflight) and the group read path with its       *)
(* sharded cache and hot-key detector (package distcache).                 *)
(*                                                                         *)
(* Keys are sequences of bytes (they are hashed), values are strings (only *)
(* their length and identity matter).                                      *)
(***************************************************************************)
EXTENDS Integers, Sequences, FiniteSets, Bags, TLC

VARIABLES
    \* ---- package lru: one shard used on its own (SpecLRU) ----
    lru,        \* the lru.Cache object
    lastOp,     \* the operation that returned last, with what it returned
    scen,       \* how many operations of the eviction scenario have run, -1 when off it
    scenLog,    \* eviction callbacks received while on the eviction scenario
    \* ---- package singleflight: the Group g (SpecSF, and g.loader in Spec) ----
    sfM,        \* g.m: key -> call
    sfCalls,    \* the call objects: wg counter, value, err
    \* ---- the goroutines that call into the coalescer or the group ----
    pc,         \* where each goroutine is
    argKey,     \* the key argument of its operation
    callOf,     \* its local c: the call it created or found (0: none)
    ret,        \* what its last operation returned
    \* ---- observers of the coalescer ----
    running,    \* per key, the goroutines with an execution of fn in flight
    flight,     \* per goroutine, the executions in flight when it looked the key up
    ranFn,      \* per goroutine, executions of fn by its current Do call
    expect,     \* per goroutine, what the execution it arrived during returned
    late,       \* per goroutine, whether the call of its key had signalled
                \* completion when it called Do
    \* ---- package distcache: one Group (Spec) ----
    shards,     \* mainCache.shards[i].lru, for the shards the keys fall in
    shardMu,    \* mainCache.shards[i].mu: the goroutine holding it, 0 when free
    bfBits,     \* hotDetector.bf.bits: the positions of the bits that are set
    cmsTable,   \* hotDetector.cms.table, for the cells the keys fall in
    hotKeys,    \* hotDetector.hotKeys: key -> ByteView
    peers,      \* g.peers: the registered PeerPicker, if any
    regCall,    \* the last call of RegisterPeers: its number, argument, whether it panicked
    rpcs,       \* the calls to peers in flight, started by `go func(p PeerClient)`
    tasks,      \* the goroutines started by `go c.hotDetector.RecordKey(key, value)`
    decay,      \* the goroutine running periodicDecay
    reached,    \* per key, whether its count was >= threshold since it last left the hot keys
    cacheBytes, \* mainCache.cacheBytes
    loc,        \* per goroutine: its operation and the locals of that operation
    \* ---- observers of the group ----
    nOps,       \* operations started so far
    loads,      \* calls of the getter so far
    burst,      \* whether all operations so far are overlapping Gets of one key
    prev,       \* per goroutine, the Get it has just returned from, nothing else having run
    del,        \* per key, whether a Delete has returned with no add since
    stable,     \* per key, the value of the last completed add, if still in force
    want,       \* per goroutine in cache.get, the value in force when it started
    \* ---- one HotKeyDetector used sequentially (SpecHK) ----
    threshold,  \* h.threshold
    hkCalls,    \* per key, the RecordKey calls since the last decay tick
    hkLast,     \* per key, the value of the last RecordKey call
    hkGot,      \* the last GetHot call: its key and what it returned
    hkTicks,    \* decay ticks so far
    stopCh,     \* h.stopCh: "open" or "closed"
    hkTask,     \* the goroutine running periodicDecay: "running" or "ended"
    hkStop,     \* how the last call of Stop ended: "none", "returned" or "panic"
    \* ---- one BloomFilter used by several goroutines (SpecBF) ----
    bfMutex,    \* bf.mutex: the goroutine holding it, 0 when free
    bfG,        \* per goroutine: its call of Add or Test and the locals of the call
    bfAdded,    \* the keys whose Add has returned
    \* ---- one CountMinSketch used by several goroutines (SpecCMS) ----
    cmsG,       \* per goroutine: its call of Add, Count or Decay and its locals
    cmsTrue,    \* per key, the sum of c over the calls Add(key, c) that have returned
    cmsAdds,    \* the calls of Add so far
    cmsDecays,  \* the calls of Decay so far
    \* ---- one consistenthash.Map, alone or inside a GRPCPool (SpecRing) ----
    ring,       \* the Map: replicas, keys, hashMap (NilMap: p.peers == nil)
    ringHash,   \* m.hash, on the names hashed so far
    ringAdded,  \* the peers passed to Add since New
    pool,       \* the GRPCPool around the Map, if any: self, grpcClients
    ringOut,    \* the last call of Get, GetN, PickPeer or ReplicaPeersForKey
    \* ---- a cluster of nodes, each with a GRPCPool and the group (SpecDel) ----
    clCache,    \* per node, whether the key is in the group's mainCache
    clNet,      \* per node, the Delete RPCs in flight to its server
    clObs       \* the key's hash; the client's and the peers' RPCs so far

lruVars == <<lru, lastOp, scen, scenLog>>
sfVars == <<sfM, sfCalls>>
thVars == <<pc, argKey, callOf, ret>>
obsVars == <<running, flight, ranFn, expect, late>>

cacheVars == <<shards, shardMu, bfBits, cmsTable, hotKeys, tasks, decay, reached, cacheBytes>>
grpVars == <<cacheVars, peers, regCall, rpcs, loc>>
gobsVars == <<nOps, loads, burst, prev, del, stable, want>>
hkVars == <<threshold, hkCalls, hkLast, hkGot, hkTicks, stopCh, hkTask, hkStop>>

bfVars == <<bfMutex, bfG, bfAdded>>
cmsVars == <<cmsG, cmsTrue, cmsAdds, cmsDecays>>
ringVars == <<ring, ringHash, ringAdded, pool, ringOut>>
clVars == <<clCache, clNet, clObs>>
libVars == <<bfVars, cmsVars, ringVars, clVars>>

vars == <<lruVars, sfVars, thVars, obsVars, grpVars, gobsVars, hkVars, libVars>>

\* the packages that a specification does not use
BfUnused == bfMutex = 0 /\ bfG = <<>> /\ bfAdded = {}
CmsUnused == cmsG = <<>> /\ cmsTrue = <<>> /\ cmsAdds = 0 /\ cmsDecays = 0
RingUnused ==
    ring = <<>> /\ ringHash = <<>> /\ ringAdded = {} /\ pool = <<>> /\ ringOut = <<>>
ClUnused == clCache = <<>> /\ clNet = <<>> /\ clObs = <<>>
LibUnused == BfUnused /\ CmsUnused /\ RingUnused /\ ClUnused

(***************************************************************************)
(* Byte strings used as keys: "a", "b", "c", "d".                          *)
(***************************************************************************)
KeyA == <<97>>
KeyB == <<98>>
KeyC == <<99>>
KeyD == <<100>>

LruKeys == {KeyA, KeyB, KeyC, KeyD}
LruValues == {"v1", "v2", "v3", "v4", "w"}

\* maxBytes settings tried for a shard: unbounded, smaller than one entry,
\* and budgets of three and five 3-byte entries.
MaxBytesChoices == {0, 2, 10, 16}

(***************************************************************************)
(* package lru                                                             *)
(***************************************************************************)

\* lru.New(maxBytes, onEvicted); onEvicted is modelled by whether it is set,
\* its calls are appended to the field evicted.
LruNew(maxBytes, hasCallback) ==
    [maxBytes  |-> maxBytes,
     nbytes    |-> 0,
     ll        |-> <<>>,
     cache     |-> {},
     onEvicted |-> hasCallback,
     evicted   |-> <<>>]

\* position in ll of the element c.cache[key] refers to
ElementOf(c, key) == CHOOSE i \in 1..Len(c.ll) : c.ll[i].key = key

\* list.MoveToFront / list.PushFront / list.Remove on the recency list
MoveToFront(ll, i) == <<ll[i]>> \o SubSeq(ll, 1, i - 1) \o SubSeq(ll, i + 1, Len(ll))
PushFront(ll, e) == <<e>> \o ll
ListRemove(ll, i) == SubSeq(ll, 1, i - 1) \o SubSeq(ll, i + 1, Len(ll))

EntryBytes(e) == Len(e.key) + Len(e.value)

\* the callback call at the end of RemoveOldest and Remove
CallOnEvicted(c, e) ==
    IF c.onEvicted THEN [c EXCEPT !.evicted = Append(@, e)] ELSE c

\* RemoveOldest taking the element at the front of the list
LruRemoveFront(c) ==
    IF Len(c.ll) > 0
    THEN LET kv == c.ll[1]
         IN  CallOnEvicted([c EXCEPT !.ll = ListRemove(@, 1),
                                     !.cache = @ \ {kv.key},
                                     !.nbytes = @ - EntryBytes(kv)], kv)
    ELSE c

\* Cache.RemoveOldest
LruRemoveOldest(c) ==
    IF Len(c.ll) > 0
    THEN LET kv == c.ll[Len(c.ll)]
         IN  CallOnEvicted([c EXCEPT !.ll = ListRemove(@, Len(c.ll)),
                                     !.cache = @ \ {kv.key},
                                     !.nbytes = @ - EntryBytes(kv)], kv)
    ELSE c

\* Cache.Add without its eviction loop
LruEvictLoopNever(c) == c

\* the loop at the end of Cache.Add
RECURSIVE LruEvictLoop(_)
LruEvictLoop(c) ==
    IF c.maxBytes # 0 /\ c.maxBytes < c.nbytes
    THEN LruEvictLoop(LruRemoveOldest(c))
    ELSE c

\* Cache.Add with the update of an existing entry losing the old length
LruAddNoDelta(c, key, val) ==
    IF key \in c.cache
    THEN LET i == ElementOf(c, key)
             moved == MoveToFront(c.ll, i)
         IN  LruEvictLoop([c EXCEPT !.ll = [moved EXCEPT ![1].value = val],
                                    !.nbytes = @ + Len(val)])
    ELSE LruEvictLoop([c EXCEPT !.ll = PushFront(@, [key |-> key, value |-> val]),
                                !.cache = @ \cup {key},
                                !.nbytes = @ + Len(key) + Len(val)])

\* Cache.Add
LruAdd(c, key, val) ==
    IF key \in c.cache
    THEN LET i == ElementOf(c, key)
             moved == MoveToFront(c.ll, i)
             kv == moved[1]
         IN  LruEvictLoop([c EXCEPT !.ll = [moved EXCEPT ![1].value = val],
                                    !.nbytes = @ + Len(val) - Len(kv.value)])
    ELSE LruEvictLoop([c EXCEPT !.ll = PushFront(@, [key |-> key, value |-> val]),
                                !.cache = @ \cup {key},
                                !.nbytes = @ + Len(key) + Len(val)])

\* Cache.Get that leaves the recency list as it is
LruGetNoMove(c, key) ==
    IF key \in c.cache
    THEN [c |-> c, value |-> c.ll[ElementOf(c, key)].value, ok |-> TRUE]
    ELSE [c |-> c, value |-> "", ok |-> FALSE]

\* Cache.Get: the cache afterwards, the value and ok
LruGet(c, key) ==
    IF key \in c.cache
    THEN LET i == ElementOf(c, key)
         IN  [c |-> [c EXCEPT !.ll = MoveToFront(@, i)],
              value |-> c.ll[i].value, ok |-> TRUE]
    ELSE [c |-> c, value |-> "", ok |-> FALSE]

\* Cache.Remove leaving the entry where it is
LruRemoveNothing(c, key) == c

\* Cache.Remove
LruRemove(c, key) ==
    IF key \in c.cache
    THEN LET i == ElementOf(c, key)
             kv == c.ll[i]
         IN  CallOnEvicted([c EXCEPT !.ll = ListRemove(@, i),
                                     !.cache = @ \ {kv.key},
                                     !.nbytes = @ - EntryBytes(kv)], kv)
    ELSE c

\* Cache.Len, Cache.NBytes
LruLen(c) == Len(c.ll)
LruNBytes(c) == c.nbytes

(***************************************************************************)
(* SpecLRU: one shard, driven by arbitrary Add / Get / Remove calls.       *)
(***************************************************************************)

\* the four Adds of the single-shard eviction scenario, in order
Scenario == << [key |-> KeyA, value |-> "v1"], [key |-> KeyB, value |-> "v2"],
               [key |-> KeyC, value |-> "v3"], [key |-> KeyD, value |-> "v4"] >>

\* the callback log is kept per operation: it is emptied when an operation starts
Fresh(c) == [c EXCEPT !.evicted = <<>>]

InitLRU ==
    /\ \E mb \in MaxBytesChoices, cb \in BOOLEAN : lru = LruNew(mb, cb)
    /\ lastOp = [op |-> "New", key |-> <<>>, value |-> "", ok |-> FALSE]
    /\ scen = 0
    /\ scenLog = <<>>
    /\ sfM = <<>> /\ sfCalls = <<>>
    /\ pc = <<>> /\ argKey = <<>> /\ callOf = <<>> /\ ret = <<>>
    /\ running = <<>> /\ flight = <<>> /\ ranFn = <<>> /\ expect = <<>>
    /\ late = <<>>
    /\ threshold = 0 /\ hkCalls = <<>> /\ hkLast = <<>> /\ hkGot = <<>> /\ hkTicks = 0
    /\ stopCh = "open" /\ hkTask = "running" /\ hkStop = "none"
    /\ LibUnused
    /\ shards = <<>> /\ shardMu = <<>> /\ bfBits = {} /\ cmsTable = <<>>
    /\ hotKeys = <<>> /\ peers = <<>> /\ regCall = <<>> /\ tasks = <<>> /\ decay = <<>> /\ reached = <<>> /\ cacheBytes = 0 /\ loc = <<>>
    /\ rpcs = {}
    /\ nOps = 0 /\ loads = 0 /\ burst = "no" /\ prev = <<>> /\ del = <<>>
    /\ stable = <<>> /\ want = <<>>

DoAdd(k, val) ==
    LET d == LruAdd(Fresh(lru), k, val)
        onScen == scen >= 0 /\ scen < Len(Scenario)
                    /\ Scenario[scen + 1] = [key |-> k, value |-> val]
    IN  /\ lru' = d
        /\ lastOp' = [op |-> "Add", key |-> k, value |-> val, ok |-> TRUE]
        /\ scen' = IF onScen THEN scen + 1 ELSE -1
        /\ scenLog' = IF onScen THEN scenLog \o d.evicted ELSE <<>>
        /\ UNCHANGED <<sfVars, thVars, obsVars, grpVars, gobsVars, hkVars, libVars>>

DoGet(k) ==
    LET r == LruGet(Fresh(lru), k)
    IN  /\ lru' = r.c
        /\ lastOp' = [op |-> "Get", key |-> k, value |-> r.value, ok |-> r.ok]
        /\ scen' = -1
        /\ scenLog' = <<>>
        /\ UNCHANGED <<sfVars, thVars, obsVars, grpVars, gobsVars, hkVars, libVars>>

DoRemove(k) ==
    /\ lru' = LruRemove(Fresh(lru), k)
    /\ lastOp' = [op |-> "Remove", key |-> k, value |-> "", ok |-> k \in lru.cache]
    /\ scen' = -1
    /\ scenLog' = <<>>
    /\ UNCHANGED <<sfVars, thVars, obsVars, grpVars, gobsVars, hkVars, libVars>>

NextLRU ==
    \/ \E k \in LruKeys, val \in LruValues : DoAdd(k, val)
    \/ \E k \in LruKeys : DoGet(k)
    \/ \E k \in LruKeys : DoRemove(k)

SpecLRU == InitLRU /\ [][NextLRU]_vars

----------------------------------------------------------------------------
RECURSIVE SumBytes(_)
SumBytes(ll) == IF ll = <<>> THEN 0 ELSE EntryBytes(Head(ll)) + SumBytes(Tail(ll))

\* C6: the byte counter of a shard equals the sum of len(key) + len(value)
\* over its resident entries after any sequence of Add, Get and Remove, and
\* with maxBytes > 0 it is at most maxBytes when an Add has returned.
C6_ByteAccounting ==
    /\ LruNBytes(lru) = SumBytes(lru.ll)
    /\ (lastOp.op = "Add" /\ lru.maxBytes > 0) => LruNBytes(lru) <= lru.maxBytes

\* an Add that replaced a value of another length and then evicted an entry
C6_Witness ==
    /\ lastOp.op = "Add"
    /\ lru.maxBytes > 0
    /\ lru.evicted # <<>>
    /\ lru.ll # <<>>
    /\ Len(Head(lru.ll).value) = 2
    /\ \E i \in 1..Len(lru.ll) : Len(lru.ll[i].value) = 1

Fits(key, val) == lru.maxBytes = 0 \/ Len(key) + Len(val) <= lru.maxBytes

AtFront(key) == lru.ll # <<>> /\ Head(lru.ll).key = key

\* C7 as stated: after Add(k, v) returns, or after a Get(k) that hit, k is at
\* the front of the recency order, for every key, value and maxBytes.
C7_Original ==
    /\ lastOp.op = "Add" => AtFront(lastOp.key)
    /\ (lastOp.op = "Get" /\ lastOp.ok) => AtFront(lastOp.key)

\* C7 amended: after a Get(k) that hit k is at the front; after Add(k, v) k is
\* at the front, holding v, when maxBytes = 0 or len(k) + len(v) <= maxBytes,
\* and otherwise the Add has evicted every entry, k included.
C7_Recency ==
    /\ (lastOp.op = "Get" /\ lastOp.ok) => AtFront(lastOp.key)
    /\ (lastOp.op = "Add" /\ Fits(lastOp.key, lastOp.value)) =>
            AtFront(lastOp.key) /\ Head(lru.ll).value = lastOp.value
    /\ (lastOp.op = "Add" /\ ~Fits(lastOp.key, lastOp.value)) =>
            lru.ll = <<>> /\ lru.cache = {}

\* a Get hit on a key that was not at the front before (two entries resident),
\* and an Add of an entry larger than the budget
C7_Witness ==
    \/ lastOp.op = "Get" /\ lastOp.ok /\ Len(lru.ll) >= 2 /\ lru.maxBytes > 0
    \/ lastOp.op = "Add" /\ ~Fits(lastOp.key, lastOp.value)

\* the three Gets of the scenario, in order, on the shard the Adds left
ScenGets ==
    LET ga == LruGet(lru, KeyA)
        gb == LruGet(ga.c, KeyB)
        gc == LruGet(gb.c, KeyC)
        gd == LruGet(gc.c, KeyD)
    IN  <<ga, gb, gc, gd>>

EvictedAOnce ==
    /\ ~ScenGets[1].ok
    /\ ScenGets[2].ok /\ ScenGets[2].value = "v2"
    /\ ScenGets[3].ok /\ ScenGets[3].value = "v3"
    /\ ScenGets[4].ok /\ ScenGets[4].value = "v4"
    /\ lru.onEvicted => scenLog = << [key |-> KeyA, value |-> "v1"] >>

\* C8 as stated: with maxBytes = 16 the fourth Add of the scenario evicts "a".
C8_Original ==
    (scen = 4 /\ lru.maxBytes = 16) => EvictedAOnce

\* C8 amended: each entry counts len(key) + len(value) = 3 bytes, so with
\* maxBytes = 16 the four Adds (12 bytes) evict nothing: all four Gets hit
\* and the callback is never called; the fourth Add evicts "a" exactly once
\* when maxBytes is 10 (three entries fit, four do not).
C8_Scenario ==
    /\ (scen = 4 /\ lru.maxBytes = 16) =>
          /\ ScenGets[1].ok /\ ScenGets[1].value = "v1"
          /\ ScenGets[2].ok /\ ScenGets[2].value = "v2"
          /\ ScenGets[3].ok /\ ScenGets[3].value = "v3"
          /\ ScenGets[4].ok /\ ScenGets[4].value = "v4"
          /\ scenLog = <<>>
          /\ LruNBytes(lru) = 12
    /\ (scen = 4 /\ lru.maxBytes = 10) => EvictedAOnce

C8_Witness == scen = 4 /\ lru.maxBytes = 16 /\ lru.onEvicted


(***************************************************************************)
(* hash/fnv as the cache, the filter and the sketch use it. A 32-bit word  *)
(* is kept as its two 16-bit halves <<hi, lo>>.                            *)
(***************************************************************************)
Pow16 == 65536

RECURSIVE Xor(_, _)
Xor(x, y) ==
    IF x = 0 THEN y
    ELSE IF y = 0 THEN x
    ELSE ((x + y) % 2) + 2 * Xor(x \div 2, y \div 2)

\* offset32 = 2166136261 = 0x811C9DC5
FnvOffset32 == <<33052, 40389>>

\* h *= prime32, prime32 = 16777619 = 0x01000193, modulo 2^32
FnvMul(h) ==
    LET low == h[2] * 403
    IN  << (h[1] * 403 + h[2] * 256 + (low \div Pow16)) % Pow16, low % Pow16 >>

\* h ^= byte
FnvXor(h, b) == << h[1], (h[2] \div 256) * 256 + Xor(h[2] % 256, b) >>

\* fnv.New32(): multiply, then xor, for each byte
RECURSIVE Fnv32From(_, _)
Fnv32From(h, bytes) ==
    IF bytes = <<>> THEN h
    ELSE Fnv32From(FnvXor(FnvMul(h), Head(bytes)), Tail(bytes))

Fnv32(bytes) == Fnv32From(FnvOffset32, bytes)

\* fnv.New32a(): xor, then multiply, for each byte
RECURSIVE Fnv32aFrom(_, _)
Fnv32aFrom(h, bytes) ==
    IF bytes = <<>> THEN h
    ELSE Fnv32aFrom(FnvMul(FnvXor(h, Head(bytes))), Tail(bytes))

Fnv32a(bytes) == Fnv32aFrom(FnvOffset32, bytes)

\* a 32-bit word modulo m, for m <= 1000000
Mod32(h, m) == (((((h[1] * 256) % m) * 256) % m) + h[2]) % m

\* sum2++ when sum2 is even
ForceOdd(h) == IF h[2] % 2 = 0 THEN << h[1], h[2] + 1 >> ELSE h

(***************************************************************************)
(* package distcache: cache.getShard                                       *)
(***************************************************************************)
shardCount == 256

\* the shard index of every key in use, computed once
ShardOf == [k \in LruKeys \cup {<<>>} |-> Mod32(Fnv32(k), shardCount)]

\* cache.getShard: the index of the shard of a key
ShardIndex(k) == ShardOf[k]

(***************************************************************************)
(* package bloomfilter                                                     *)
(***************************************************************************)
\* NewBloomFilter(1_000_000, 5) in NewHotKeyDetector
BloomM == 1000000
BloomK == 5

\* BloomFilter.hash(key, i), for i < k
BloomHash(k, i) ==
    (Mod32(Fnv32a(k), BloomM) + i * Mod32(ForceOdd(Fnv32(k)), BloomM)) % BloomM

\* the bit positions of every key in use, computed once
ProbesOf == [k \in LruKeys |-> { BloomHash(k, i) % BloomM : i \in 0..(BloomK - 1) }]

\* the bit positions Add sets and Test reads
BloomProbes(k) == ProbesOf[k]

\* BloomFilter.Add: the bits afterwards
BloomAdd(bits, k) == bits \cup BloomProbes(k)

\* a filter that reports every key as present
BloomTestAlways(bits, k) == TRUE

\* BloomFilter.Test
BloomTest(bits, k) == BloomProbes(k) \subseteq bits

(***************************************************************************)
(* package countminsketch                                                  *)
(***************************************************************************)
\* NewCountMinSketch(0.001, 0.99): width = ceil(e / 0.001), depth = ceil(ln(1 / 0.99))
CmsWidth == 2719
CmsDepth == 1

\* 32-bit addition and multiplication by a small number, modulo 2^32
Add32(g, h) ==
    LET low == g[2] + h[2]
    IN  << (g[1] + h[1] + (low \div Pow16)) % Pow16, low % Pow16 >>

RECURSIVE Times32(_, _)
Times32(h, i) == IF i = 0 THEN <<0, 0>> ELSE Add32(h, Times32(h, i - 1))

\* doubleHash(key, i) = sum1 + i * sum2
DoubleHash(k, i) == Add32(Fnv32a(k), Times32(ForceOdd(Fnv32(k)), i))

\* cms.hashes[i](key) % width: the cell of row i that counts key
CmsCell(k, i) == << i, Mod32(DoubleHash(k, i), CmsWidth) % CmsWidth >>

\* the cells of every key in use, computed once
CellsOf == [k \in LruKeys |-> { CmsCell(k, i) : i \in 0..(CmsDepth - 1) }]

CmsCellsOf(k) == CellsOf[k]

\* CountMinSketch.Add, all rows (each row is one atomic add)
CmsAdd(table, k, n) ==
    [cell \in DOMAIN table |-> IF cell \in CmsCellsOf(k) THEN table[cell] + n ELSE table[cell]]

Min(S) == CHOOSE x \in S : \A y \in S : x <= y

\* CountMinSketch.Count
CmsCount(table, k) == Min({ table[cell] : cell \in CmsCellsOf(k) })

(***************************************************************************)
(* package singleflight                                                    *)
(***************************************************************************)

\* number of goroutines calling Do in SpecSF
NumCallers == 3

SfKeys == {KeyA, KeyB}

\* what fn may return: (value, nil) or (nil, err)
FnResults == { [value |-> "v1", err |-> ""], [value |-> "", err |-> "failed"] }

NoRet == [value |-> "", err |-> "none yet"]

\* new(call) followed by c.wg.Add(1)
NewCall == [wg |-> 1, value |-> "", err |-> ""]

\* the identity of a newly allocated call: the least one not in use
NewCallId == CHOOSE i \in 1..(Cardinality(DOMAIN pc) + 1) :
                 /\ i \notin DOMAIN sfCalls
                 /\ \A j \in 1..(i - 1) : j \in DOMAIN sfCalls

\* the call objects still referenced by g.m or by a goroutine's c
Collect(calls, m, refs) ==
    LET live == {m[k] : k \in DOMAIN m} \cup {refs[t] : t \in DOMAIN refs}
    IN  [i \in DOMAIN calls \cap live |-> calls[i]]

\* delete(g.m, key)
MapDelete(m, k) == [x \in DOMAIN m \ {k} |-> m[x]]

\* c.wg.Wait() returning at once, whatever the counter
WgWaitSkipped(call) == TRUE

\* c.wg.Wait() can return
WgWait(call) == call.wg = 0

\* the lookup in g.m never finding the key
InFlightNever(m, k) == FALSE

\* `if c, ok := g.m[key]; ok`
InFlight(m, k) == k \in DOMAIN m

\* the lookup returning the call of some key of g.m
LookupAny(m, k) == m[CHOOSE x \in DOMAIN m : x # k \/ DOMAIN m = {k}]

\* c := g.m[key]
Lookup(m, k) == m[k]

\* Do, lines 23-35: under g.mu, join the call in flight or register a new one
DoLock(t) ==
    /\ pc[t] = "do_lock"
    /\ flight' = [flight EXCEPT ![t] = running[argKey[t]]]
    /\ ranFn' = [ranFn EXCEPT ![t] = 0]
    /\ expect' = [expect EXCEPT ![t] = NoRet]
    /\ IF InFlight(sfM, argKey[t])
       THEN /\ callOf' = [callOf EXCEPT ![t] = Lookup(sfM, argKey[t])]
            /\ pc' = [pc EXCEPT ![t] = "do_wait"]
            /\ UNCHANGED <<sfM, sfCalls, running>>
       ELSE /\ sfCalls' = (NewCallId :> NewCall) @@ sfCalls
            /\ sfM' = (argKey[t] :> NewCallId) @@ sfM
            /\ callOf' = [callOf EXCEPT ![t] = NewCallId]
            /\ pc' = [pc EXCEPT ![t] = "do_fn"]
            /\ running' = [running EXCEPT ![argKey[t]] = @ \cup {t}]
    /\ UNCHANGED <<argKey, ret, late, lruVars, hkVars, libVars>>

\* Do, lines 29-30: wait for the call in flight and return what it holds
DoWait(t) ==
    /\ pc[t] = "do_wait"
    /\ WgWait(sfCalls[callOf[t]])
    /\ ret' = [ret EXCEPT ![t] = [value |-> sfCalls[callOf[t]].value,
                                  err |-> sfCalls[callOf[t]].err]]
    /\ pc' = [pc EXCEPT ![t] = "returned"]
    /\ callOf' = [callOf EXCEPT ![t] = 0]
    /\ sfCalls' = Collect(sfCalls, sfM, [callOf EXCEPT ![t] = 0])
    /\ UNCHANGED <<sfM, argKey, obsVars, lruVars, hkVars, libVars>>

\* Do, line 37: fn has returned r, which is stored in the call
FnAssign(t, r) ==
    /\ sfCalls' = [sfCalls EXCEPT ![callOf[t]].value = r.value,
                                  ![callOf[t]].err = r.err]
    /\ pc' = [pc EXCEPT ![t] = "do_done"]
    /\ ranFn' = [ranFn EXCEPT ![t] = @ + 1]
    /\ running' = [running EXCEPT ![argKey[t]] = @ \ {t}]
    /\ expect' = [u \in DOMAIN expect |->
                    IF u = t \/ (t \in flight[u] /\ pc[u] = "do_wait"
                                  /\ expect[u] = NoRet)
                    THEN r ELSE expect[u]]
    /\ UNCHANGED <<sfM, argKey, callOf, ret, flight, late, lruVars, hkVars, libVars>>

\* Do going on from fn to the deletion without c.wg.Done()
DoDoneNoSignal(t) ==
    /\ pc[t] = "do_done"
    /\ pc' = [pc EXCEPT ![t] = "do_delete"]
    /\ UNCHANGED <<sfM, sfCalls, argKey, callOf, ret, obsVars, lruVars, hkVars, libVars>>

\* Do, line 38: c.wg.Done()
DoDone(t) ==
    /\ pc[t] = "do_done"
    /\ sfCalls' = [sfCalls EXCEPT ![callOf[t]].wg = @ - 1]
    /\ pc' = [pc EXCEPT ![t] = "do_delete"]
    /\ UNCHANGED <<sfM, argKey, callOf, ret, obsVars, lruVars, hkVars, libVars>>

\* Do, lines 39-42: under g.mu, delete the entry; return c.value, c.err
DoDelete(t) ==
    /\ pc[t] = "do_delete"
    /\ sfM' = MapDelete(sfM, argKey[t])
    /\ ret' = [ret EXCEPT ![t] = [value |-> sfCalls[callOf[t]].value,
                                  err |-> sfCalls[callOf[t]].err]]
    /\ pc' = [pc EXCEPT ![t] = "returned"]
    /\ callOf' = [callOf EXCEPT ![t] = 0]
    /\ sfCalls' = Collect(sfCalls, sfM', [callOf EXCEPT ![t] = 0])
    /\ UNCHANGED <<argKey, obsVars, lruVars, hkVars, libVars>>

(***************************************************************************)
(* SpecSF: goroutines calling Do(key, fn) over and over, where fn returns  *)
(* any of FnResults.                                                       *)
(***************************************************************************)
InitSF ==
    /\ lru = LruNew(0, FALSE)
    /\ lastOp = [op |-> "New", key |-> <<>>, value |-> "", ok |-> FALSE]
    /\ scen = -1
    /\ scenLog = <<>>
    /\ sfM = <<>>
    /\ sfCalls = <<>>
    /\ pc = [t \in 1..NumCallers |-> "idle"]
    /\ argKey = [t \in 1..NumCallers |-> <<>>]
    /\ callOf = [t \in 1..NumCallers |-> 0]
    /\ ret = [t \in 1..NumCallers |-> NoRet]
    /\ running = [k \in SfKeys |-> {}]
    /\ flight = [t \in 1..NumCallers |-> {}]
    /\ ranFn = [t \in 1..NumCallers |-> 0]
    /\ expect = [t \in 1..NumCallers |-> NoRet]
    /\ late = [t \in 1..NumCallers |-> FALSE]
    /\ threshold = 0 /\ hkCalls = <<>> /\ hkLast = <<>> /\ hkGot = <<>> /\ hkTicks = 0
    /\ stopCh = "open" /\ hkTask = "running" /\ hkStop = "none"
    /\ LibUnused
    /\ shards = <<>> /\ shardMu = <<>> /\ bfBits = {} /\ cmsTable = <<>>
    /\ hotKeys = <<>> /\ peers = <<>> /\ regCall = <<>> /\ tasks = <<>> /\ decay = <<>> /\ reached = <<>> /\ cacheBytes = 0 /\ loc = <<>>
    /\ rpcs = {}
    /\ nOps = 0 /\ loads = 0 /\ burst = "no" /\ prev = <<>> /\ del = <<>>
    /\ stable = <<>> /\ want = <<>>

\* fn of the call that g.m holds for k has returned and c.wg.Done() has run
Delivered(m, calls, k) == InFlight(m, k) /\ calls[m[k]].wg = 0

\* a goroutine calls g.Do(k, fn)
SfCall(t, k) ==
    /\ pc[t] = "idle"
    /\ pc' = [pc EXCEPT ![t] = "do_lock"]
    /\ argKey' = [argKey EXCEPT ![t] = k]
    /\ late' = [late EXCEPT ![t] = Delivered(sfM, sfCalls, k)]
    /\ UNCHANGED <<sfVars, callOf, ret, running, flight, ranFn, expect, lruVars, hkVars, libVars>>

\* the caller has used what Do returned and is ready for its next call
SfNext(t) ==
    /\ pc[t] = "returned"
    /\ pc' = [pc EXCEPT ![t] = "idle"]
    /\ argKey' = [argKey EXCEPT ![t] = <<>>]
    /\ ret' = [ret EXCEPT ![t] = NoRet]
    /\ flight' = [flight EXCEPT ![t] = {}]
    /\ ranFn' = [ranFn EXCEPT ![t] = 0]
    /\ expect' = [expect EXCEPT ![t] = NoRet]
    /\ late' = [late EXCEPT ![t] = FALSE]
    /\ UNCHANGED <<sfVars, callOf, running, lruVars, hkVars, libVars>>

\* fn runs and returns
SfFn(t) ==
    /\ pc[t] = "do_fn"
    /\ \E r \in FnResults : FnAssign(t, r)

NextSF ==
    \/ \E t \in DOMAIN pc, k \in SfKeys : SfCall(t, k) /\ UNCHANGED <<grpVars, gobsVars>>
    \/ \E t \in DOMAIN pc : DoLock(t) /\ UNCHANGED <<grpVars, gobsVars>>
    \/ \E t \in DOMAIN pc : DoWait(t) /\ UNCHANGED <<grpVars, gobsVars>>
    \/ \E t \in DOMAIN pc : SfFn(t) /\ UNCHANGED <<grpVars, gobsVars>>
    \/ \E t \in DOMAIN pc : DoDone(t) /\ UNCHANGED <<grpVars, gobsVars>>
    \/ \E t \in DOMAIN pc : DoDelete(t) /\ UNCHANGED <<grpVars, gobsVars>>
    \/ \E t \in DOMAIN pc : SfNext(t) /\ UNCHANGED <<grpVars, gobsVars>>

SpecSF == InitSF /\ [][NextSF]_vars

----------------------------------------------------------------------------
Returned(t) == pc[t] = "returned"

\* C1: callers of Do(key, fn) that arrive (look the key up) while an
\* execution of fn for that key is in flight do not execute fn themselves and
\* return the (value, err) that this one execution returned; the caller that
\* started it executed fn exactly once.
C1_Coalescing ==
    \A t \in DOMAIN pc :
        /\ flight[t] # {} =>
              /\ ranFn[t] = 0
              /\ Cardinality(flight[t]) = 1
              /\ Returned(t) => (expect[t] # NoRet /\ ret[t] = expect[t])
        /\ (flight[t] = {} /\ pc[t] \in {"do_done", "do_delete"}) => ranFn[t] = 1
        /\ (flight[t] = {} /\ Returned(t) /\ ranFn[t] > 0) =>
              (ranFn[t] = 1 /\ ret[t] = expect[t])

\* three callers of the same key, two of which arrived during the execution
\* of the third, have all returned the same pair
C1_Witness ==
    \E l, t, u \in DOMAIN pc :
        /\ t # u /\ l # t /\ l # u
        /\ flight[t] = {l} /\ flight[u] = {l} /\ flight[l] = {}
        /\ Returned(l) /\ Returned(t) /\ Returned(u)
        /\ ranFn[l] = 1
        /\ ret[t] = ret[l] /\ ret[u] = ret[l]
        /\ ret[l].err = "failed"

(***************************************************************************)
(* package distcache: a Group with its sharded cache, hot key detector and *)
(* singleflight loader                                                     *)
(***************************************************************************)

\* goroutines calling the group; the Gets they start in all, without and
\* with a picker, and the setCaches and Deletes; RecordKey goroutines alive
\* at a time; ticks of the decay ticker
NumThreads == 2
MaxGets == 3
MaxPeerGets == 1
MaxSets == 1
MaxDeletes == 1
MaxTasks == 1
MaxTicks == 1

\* hotThreshold of NewGroupWithHotKeyConfig
HotThreshold == 2

\* cacheBytes of the group: 2 << 10 as in TestGet
GroupCacheBytes == 2048

\* calls of RegisterPeers on the group
MaxRegisters == 2

GKeys == {KeyA}
EmptyKey == <<>>
NoVal == "(none)"

\* what the getter returns for a key of the data source, and what it
\* returns for a key that is not there
GetterValue == "630"
GetterResults == { [value |-> GetterValue, err |-> ""], [value |-> "", err |-> "not exist"] }

\* values written by setCache (replica synchronisation); the second one is
\* longer than a shard's budget
PushValues == {"589", "12345678"}

\* a peer's Get answers with its copy or fails
PeerValue(p) == IF p = 1 THEN "p1" ELSE "p2"
PeerResults(p) == { [value |-> PeerValue(p), err |-> ""], [value |-> "", err |-> "peer error"] }

\* g.peers: nil, or a picker that answers PickPeer with `primary` (0 is this
\* node) and ReplicaPeersForKey with `replicas`
NoPicker == [set |-> FALSE, primary |-> 0, replicas |-> <<>>]
Pickers == { [set |-> TRUE, primary |-> 0, replicas |-> <<1, 2>>],
             [set |-> TRUE, primary |-> 1, replicas |-> <<1, 2>>] }

\* no call of RegisterPeers yet
NoRegCall == [n |-> 0, arg |-> NoPicker, panic |-> FALSE]

\* PickPeer(key) returns (peer, true)
PickPeerOk == peers.set /\ peers.primary # 0

\* the peers load asks, in order: the primary, then ReplicaPeersForKey
PeerAttempts == <<peers.primary>> \o peers.replicas

\* the locals of a goroutine's operation
LocIdle == [op |-> "none", val |-> NoVal, tried |-> <<>>, sent |-> <<>>,
            src |-> "none", ranLoader |-> FALSE]

NoPrev == [key |-> EmptyKey, value |-> NoVal, stage |-> "none"]

\* newCache: perBytes := cacheBytes / shardCount
PerBytesOf(total) == total \div shardCount

PerBytes == PerBytesOf(GroupCacheBytes)

Shard(k) == shards[ShardIndex(k)]

CmsCells == UNION { CmsCellsOf(k) : k \in GKeys }

\* NewGroupWithHotKeyConfig
NewGroupState(total) ==
    /\ lru = LruNew(0, FALSE)
    /\ lastOp = [op |-> "New", key |-> <<>>, value |-> "", ok |-> FALSE]
    /\ scen = -1
    /\ scenLog = <<>>
    /\ sfM = <<>>
    /\ sfCalls = <<>>
    /\ pc = [t \in 1..NumThreads |-> "idle"]
    /\ argKey = [t \in 1..NumThreads |-> EmptyKey]
    /\ callOf = [t \in 1..NumThreads |-> 0]
    /\ ret = [t \in 1..NumThreads |-> NoRet]
    /\ running = [k \in GKeys |-> {}]
    /\ flight = [t \in 1..NumThreads |-> {}]
    /\ ranFn = [t \in 1..NumThreads |-> 0]
    /\ expect = [t \in 1..NumThreads |-> NoRet]
    /\ late = [t \in 1..NumThreads |-> FALSE]
    /\ threshold = HotThreshold /\ hkCalls = <<>> /\ hkLast = <<>> /\ hkGot = <<>> /\ hkTicks = 0
    /\ stopCh = "open" /\ hkTask = "running" /\ hkStop = "none"
    /\ LibUnused
    /\ cacheBytes = total
    /\ shards = [i \in { ShardIndex(k) : k \in GKeys } |-> LruNew(PerBytesOf(total), FALSE)]
    /\ shardMu = [i \in { ShardIndex(k) : k \in GKeys } |-> 0]
    /\ bfBits = {}
    /\ cmsTable = [cell \in CmsCells |-> 0]
    /\ hotKeys = <<>>
    /\ peers = NoPicker
    /\ regCall = NoRegCall
    /\ rpcs = {}
    /\ tasks = EmptyBag
    /\ decay = [at |-> "idle", ticks |-> 0, cells |-> {}, old |-> 0, keys |-> {},
                cur |-> EmptyKey]
    /\ reached = [k \in GKeys |-> FALSE]
    /\ loc = [t \in 1..NumThreads |-> LocIdle]
    /\ nOps = [Get |-> 0, SetCache |-> 0, Delete |-> 0]
    /\ loads = 0
    /\ burst = "yes"
    /\ prev = [t \in 1..NumThreads |-> NoPrev]
    /\ del = [k \in GKeys |-> "no"]
    /\ stable = [k \in GKeys |-> NoVal]
    /\ want = [t \in 1..NumThreads |-> NoVal]

\* NewGroup(name, cacheBytes, getter) with cacheBytes = 2 << 10
Init == NewGroupState(GroupCacheBytes)

\* ---- observers ----
\* a goroutine of the callers acts: the returns of the others are no longer
\* immediately before their next call
OthersActed(t) == [u \in DOMAIN prev |-> IF u = t THEN prev[u] ELSE NoPrev]

\* an operation returns
BurstAtReturn(b) == IF b = "yes" THEN "closed" ELSE b

\* the values in force become st: gets under way of a key whose value in
\* force ended lose their claim
WantAfter(st) ==
    [u \in DOMAIN want |->
        IF argKey[u] \in GKeys /\ st[argKey[u]] # want[u] THEN NoVal ELSE want[u]]

\* the return of goroutine t's Get, for its immediately following Get
PrevAtReturn(t, fromLoader, v) ==
    [OthersActed(t) EXCEPT ![t] =
        IF prev[t].stage = "second" THEN prev[t]
        ELSE IF fromLoader
             THEN [key |-> argKey[t], value |-> v, stage |-> "first"]
             ELSE NoPrev]

\* ---- HotKeyDetector ----
RkPcs == {"rk_test", "rk_bfadd", "rk_cms", "rk_count", "rk_store"}

\* the comparison needing one more access
PromoteLate(count, th) == count > th + 1

\* `if count >= h.threshold`
Promote(count, th) == count >= th

\* h.hotKeys.Store(key, value)
HotStore(hot, k, v) == (k :> v) @@ [x \in DOMAIN hot \ {k} |-> hot[x]]

\* one step of RecordKey(k, v) from position `at`: the detector afterwards
\* and the position reached
RecordKeyStep(at, k, v) ==
    LET d == [bits |-> bfBits, table |-> cmsTable, hot |-> hotKeys, at |-> "rk_done"]
    IN  CASE at = "rk_test" ->
               [d EXCEPT !.at = IF BloomTest(bfBits, k) THEN "rk_cms" ELSE "rk_bfadd"]
          [] at = "rk_bfadd" -> [d EXCEPT !.bits = BloomAdd(bfBits, k)]
          [] at = "rk_cms" ->
               [d EXCEPT !.table = CmsAdd(cmsTable, k, 1), !.at = "rk_count"]
          [] at = "rk_count" ->
               [d EXCEPT !.at = IF Promote(CmsCount(cmsTable, k), HotThreshold)
                                THEN "rk_store" ELSE "rk_done"]
          [] at = "rk_store" -> [d EXCEPT !.hot = HotStore(hotKeys, k, v)]

\* whether the count of k was >= threshold at some point since k last left
\* the hot keys, after a step from hot keys `hot` to `hot1` with table `table1`
ReachedAfter(hot, hot1, table1) ==
    [k \in GKeys |->
        \/ Promote(CmsCount(table1, k), HotThreshold)
        \/ reached[k] /\ ~(k \in DOMAIN hot /\ k \notin DOMAIN hot1)]

\* a goroutine started by cache.get takes its next step of RecordKey
TaskStep(e) ==
    /\ e \in BagToSet(tasks)
    /\ LET n == RecordKeyStep(e.at, e.key, e.value)
       IN  /\ bfBits' = n.bits
           /\ cmsTable' = n.table
           /\ hotKeys' = n.hot
           /\ reached' = ReachedAfter(hotKeys, n.hot, n.table)
           /\ UNCHANGED cacheBytes
           /\ tasks' = IF n.at = "rk_done"
                       THEN tasks (-) SetToBag({e})
                       ELSE (tasks (-) SetToBag({e})) (+) SetToBag({[e EXCEPT !.at = n.at]})
    /\ UNCHANGED <<lruVars, hkVars, libVars, sfVars, thVars, obsVars, shards, shardMu, decay,
                   peers, regCall, rpcs, loc, gobsVars>>

\* the cell Decay visits next: rows in order, columns in order
NextCell(cells) ==
    CHOOSE c \in cells : \A d \in cells : c[1] < d[1] \/ (c[1] = d[1] /\ c[2] <= d[2])

\* periodicDecay: the ticker fires and Decay reads its first cell,
\* old := atomic.LoadUint64(&cms.table[i][j]); or Decay reads its next cell
DecayLoad ==
    /\ \/ /\ decay.at = "idle" /\ decay.ticks < MaxTicks
          /\ decay' = [decay EXCEPT !.at = "store", !.ticks = @ + 1, !.cells = CmsCells,
                                    !.old = cmsTable[NextCell(CmsCells)]]
       \/ /\ decay.at = "load"
          /\ decay' = [decay EXCEPT !.at = "store", !.old = cmsTable[NextCell(decay.cells)]]
    /\ UNCHANGED <<lruVars, hkVars, libVars, sfVars, thVars, obsVars, shards, shardMu, bfBits,
                   cmsTable, hotKeys, reached, cacheBytes, tasks, peers, regCall, rpcs, loc, gobsVars>>

\* where periodicDecay is once the keys left to Range over are `keys`
AfterVisit(keys) == IF keys = {} THEN "idle" ELSE "range"

\* Decay: atomic.StoreUint64(&cms.table[i][j], old/2); after the last cell
\* the Range over the hot keys begins
DecayStore ==
    /\ decay.at = "store"
    /\ cmsTable' = [cmsTable EXCEPT ![NextCell(decay.cells)] = decay.old \div 2]
    /\ reached' = ReachedAfter(hotKeys, hotKeys, cmsTable')
    /\ UNCHANGED cacheBytes
    /\ LET rest == decay.cells \ {NextCell(decay.cells)}
       IN  decay' = IF rest = {}
                    THEN [decay EXCEPT !.at = AfterVisit(DOMAIN hotKeys), !.cells = {},
                                       !.old = 0, !.keys = DOMAIN hotKeys]
                    ELSE [decay EXCEPT !.at = "load", !.cells = rest, !.old = 0]
    /\ UNCHANGED <<lruVars, hkVars, libVars, sfVars, thVars, obsVars, shards, shardMu, bfBits,
                   hotKeys, tasks, peers, regCall, rpcs, loc, gobsVars>>

\* the Range callback reads the count of a key
DecayRange ==
    /\ decay.at = "range"
    /\ \E k \in decay.keys :
          decay' = IF CmsCount(cmsTable, k) < HotThreshold \div 2
                   THEN [decay EXCEPT !.at = "demote", !.cur = k, !.keys = @ \ {k}]
                   ELSE [decay EXCEPT !.at = AfterVisit(decay.keys \ {k}), !.keys = @ \ {k}]
    /\ UNCHANGED <<lruVars, hkVars, libVars, sfVars, thVars, obsVars, shards, shardMu, bfBits,
                   cmsTable, hotKeys, reached, cacheBytes, tasks, peers, regCall, rpcs, loc, gobsVars>>

\* the Range callback: h.hotKeys.Delete(key)
DecayDemote ==
    /\ decay.at = "demote"
    /\ hotKeys' = MapDelete(hotKeys, decay.cur)
    /\ reached' = ReachedAfter(hotKeys, hotKeys', cmsTable)
    /\ UNCHANGED cacheBytes
    /\ decay' = [decay EXCEPT !.at = AfterVisit(decay.keys), !.cur = EmptyKey]
    /\ UNCHANGED <<lruVars, hkVars, libVars, sfVars, thVars, obsVars, shards, shardMu, bfBits,
                   cmsTable, tasks, peers, regCall, rpcs, loc, gobsVars>>

\* ---- Group ----
\* RegisterPeers without the check of g.peers
InstallAlways(g, p) == [peers |-> p, panic |-> FALSE]

\* the body of RegisterPeers: panic("RegisterPeerPicker called more than
\* once") if g.peers != nil, else g.peers = peers
Install(g, p) ==
    IF g # NoPicker THEN [peers |-> g, panic |-> TRUE]
    ELSE [peers |-> p, panic |-> FALSE]

\* a call g.RegisterPeers(p), made while the group is not in use (the panic
\* of a second call is recovered by the caller)
RegisterPeers(p) ==
    /\ regCall.n < MaxRegisters
    /\ nOps.Get + nOps.SetCache + nOps.Delete = 0
    /\ LET r == Install(peers, p)
       IN  /\ peers' = r.peers
           /\ regCall' = [n |-> regCall.n + 1, arg |-> p, panic |-> r.panic]
    /\ UNCHANGED <<lruVars, hkVars, libVars, sfVars, thVars, obsVars, cacheVars, rpcs, loc, gobsVars>>

\* Group.Get: the check of the key, then cache.get's look into the hot keys
\* the empty key accepted: nil error
ErrKeyRequiredNil == [value |-> "", err |-> ""]

\* Get, lines 94-96: ByteView{}, fmt.Errorf("key is required")
ErrKeyRequired == [value |-> "", err |-> "key is required"]

\* the hot path recording the access as the LRU path does
HotHitTasksRecorded(k, v) == SetToBag({[key |-> k, value |-> v, at |-> "rk_test"]})

\* cache.get, lines 58-65: the goroutines a hit among the hot keys starts
\* (none: RecordKey is not called)
HotHitTasks(k, v) == EmptyBag

GetStartUpTo(t, k, most) ==
    /\ pc[t] = "idle"
    /\ nOps.Get < most
    /\ nOps' = [nOps EXCEPT !.Get = @ + 1]
    /\ argKey' = [argKey EXCEPT ![t] = k]
    /\ prev' = [OthersActed(t) EXCEPT ![t] =
                   IF prev[t].stage = "first" /\ prev[t].key = k
                   THEN [prev[t] EXCEPT !.stage = "second"] ELSE NoPrev]
    /\ LET started == IF burst = "yes" /\ k \in GKeys /\ ~peers.set THEN "yes" ELSE "no"
       IN  IF k = EmptyKey
           THEN /\ ret' = [ret EXCEPT ![t] = ErrKeyRequired]
                /\ pc' = [pc EXCEPT ![t] = "returned"]
                /\ loc' = [loc EXCEPT ![t] = [LocIdle EXCEPT !.op = "Get"]]
                /\ burst' = "no"
                /\ want' = want
                /\ tasks' = tasks
           ELSE IF k \in DOMAIN hotKeys
           THEN /\ ret' = [ret EXCEPT ![t] = [value |-> hotKeys[k], err |-> ""]]
                /\ tasks' = tasks (+) HotHitTasks(k, hotKeys[k])
                /\ pc' = [pc EXCEPT ![t] = "returned"]
                /\ loc' = [loc EXCEPT ![t] = [LocIdle EXCEPT !.op = "Get", !.src = "hot"]]
                /\ burst' = BurstAtReturn(started)
                /\ want' = [want EXCEPT ![t] = stable[k]]
           ELSE /\ ret' = ret
                /\ pc' = [pc EXCEPT ![t] = "cache_get"]
                /\ loc' = [loc EXCEPT ![t] = [LocIdle EXCEPT !.op = "Get"]]
                /\ burst' = started
                /\ want' = [want EXCEPT ![t] = stable[k]]
                /\ tasks' = tasks
    /\ UNCHANGED <<lruVars, hkVars, libVars, sfVars, callOf, obsVars, shards, shardMu, bfBits,
                   cmsTable, hotKeys, decay, reached, cacheBytes, peers, regCall, rpcs, loads, del, stable>>

\* Group.Get(key), for as many calls as the goroutines together make
GetStart(t, k) == GetStartUpTo(t, k, IF peers.set THEN MaxPeerGets ELSE MaxGets)

\* cache.get, lines 67-82: under the shard's lock, look into the LRU and on
\* a hit start a goroutine that records the access
CacheGet(t) ==
    /\ pc[t] = "cache_get"
    /\ shardMu[ShardIndex(argKey[t])] = 0
    /\ LET k == argKey[t]
           r == LruGet(Shard(k), k)
       IN  /\ shards' = [shards EXCEPT ![ShardIndex(k)] = r.c]
           /\ IF r.ok
              THEN /\ BagCardinality(tasks) < MaxTasks
                   /\ tasks' = tasks (+) SetToBag({[key |-> k, value |-> r.value,
                                                    at |-> "rk_test"]})
                   /\ ret' = [ret EXCEPT ![t] = [value |-> r.value, err |-> ""]]
                   /\ pc' = [pc EXCEPT ![t] = "returned"]
                   /\ loc' = [loc EXCEPT ![t].src = "local"]
                   /\ burst' = BurstAtReturn(burst)
              ELSE /\ pc' = [pc EXCEPT ![t] = "do_lock"]
                   /\ UNCHANGED <<tasks, ret, loc, burst>>
    /\ prev' = OthersActed(t)
    /\ UNCHANGED <<lruVars, hkVars, libVars, sfVars, argKey, callOf, obsVars, shardMu, bfBits, cmsTable,
                   hotKeys, decay, reached, cacheBytes, peers, regCall, rpcs, nOps, loads, del, stable, want>>

\* the steps of loader.Do inside Group.load
GDoLock(t) ==
    /\ DoLock(t)
    /\ prev' = OthersActed(t)
    /\ UNCHANGED <<cacheVars, peers, regCall, rpcs, loc, nOps, loads, burst, del, stable, want>>

GDoDone(t) ==
    /\ DoDone(t)
    /\ prev' = OthersActed(t)
    /\ UNCHANGED <<cacheVars, peers, regCall, rpcs, loc, nOps, loads, burst, del, stable, want>>

\* Do returns the result of the call in flight, load and Get return it
GDoWait(t) ==
    /\ DoWait(t)
    /\ loc' = [loc EXCEPT ![t].src = "shared"]
    /\ burst' = BurstAtReturn(burst)
    /\ prev' = PrevAtReturn(t, FALSE, NoVal)
    /\ UNCHANGED <<cacheVars, peers, regCall, rpcs, nOps, loads, del, stable, want>>

\* Do returns the result of fn, load and Get return it
GDoDelete(t) ==
    /\ DoDelete(t)
    /\ burst' = BurstAtReturn(burst)
    /\ LET k == argKey[t]
           v == sfCalls[callOf[t]].value
       IN  prev' = PrevAtReturn(t, /\ loc[t].ranLoader
                                   /\ sfCalls[callOf[t]].err = ""
                                   /\ k \in Shard(k).cache
                                   /\ LruGetNoMove(Shard(k), k).value = v, v)
    /\ UNCHANGED <<cacheVars, peers, regCall, rpcs, loc, nOps, loads, del, stable, want>>

\* `err == nil` after getFromPeer taken to hold whatever came back
PeerSucceededAlways(r) == TRUE

\* `err == nil` after getFromPeer
PeerSucceeded(r) == r.err = ""

\* load, lines 151-161: ask the primary, then the replicas in order; the
\* first answer is the result
\* a peer's value handed to g.set, as getLocally does with the getter's
PeerReturnViaSet(t, p, r) ==
    /\ loc' = [loc EXCEPT ![t].tried = Append(@, [peer |-> p, ok |-> TRUE]),
                          ![t].src = "peer", ![t].val = r.value]
    /\ pc' = [pc EXCEPT ![t] = "add_lock"]
    /\ UNCHANGED <<sfVars, argKey, callOf, ret, obsVars, lruVars, hkVars, libVars>>

\* load, lines 153-155 and 158-160: `return value, nil`, the peer's value is
\* the result of fn
PeerReturn(t, p, r) ==
    /\ loc' = [loc EXCEPT ![t].tried = Append(@, [peer |-> p, ok |-> TRUE]),
                          ![t].src = "peer"]
    /\ FnAssign(t, r)

PeerGet(t) ==
    /\ pc[t] = "do_fn"
    /\ PickPeerOk
    /\ Len(loc[t].tried) < Len(PeerAttempts)
    /\ LET p == PeerAttempts[Len(loc[t].tried) + 1]
       IN  \E r \in PeerResults(p) :
              IF PeerSucceeded(r)
              THEN PeerReturn(t, p, r)
              ELSE /\ loc' = [loc EXCEPT ![t].tried = Append(@, [peer |-> p, ok |-> FALSE])]
                   /\ UNCHANGED <<sfVars, thVars, obsVars, lruVars, hkVars, libVars>>
    /\ prev' = OthersActed(t)
    /\ UNCHANGED <<cacheVars, peers, regCall, rpcs, nOps, loads, burst, del, stable, want>>

\* load reaches `return g.getLocally(key)` although a peer is still to be asked
LoaderDueAtOnce(t) == TRUE

\* load reaches `return g.getLocally(key)`
LoaderDue(t) == ~PickPeerOk \/ Len(loc[t].tried) = Len(PeerAttempts)

\* `if err != nil` after g.getter.Get never taken
GetterSucceededAlways(r) == TRUE

\* getLocally, lines 184-186: g.getter.Get returned no error
GetterSucceeded(r) == r.err = ""

\* getLocally: g.getter.Get(key); an error is the result of fn, a value goes
\* on to g.set
Loader(t) ==
    /\ pc[t] = "do_fn"
    /\ LoaderDue(t)
    /\ loads' = loads + 1
    /\ \E r \in GetterResults :
          IF GetterSucceeded(r)
          THEN /\ loc' = [loc EXCEPT ![t].val = r.value, ![t].ranLoader = TRUE,
                                     ![t].src = "loader"]
               /\ pc' = [pc EXCEPT ![t] = "add_lock"]
               /\ burst' = burst
               /\ UNCHANGED <<sfVars, argKey, callOf, ret, obsVars, lruVars, hkVars, libVars>>
          ELSE /\ loc' = [loc EXCEPT ![t].ranLoader = TRUE, ![t].src = "loader"]
               /\ burst' = "no"
               /\ FnAssign(t, r)
    /\ prev' = OthersActed(t)
    /\ UNCHANGED <<cacheVars, peers, regCall, rpcs, nOps, del, stable, want>>

\* Group.setCache(k, v) is called
SetCacheStart(t, k, v) ==
    /\ pc[t] = "idle" /\ nOps.SetCache < MaxSets
    /\ nOps' = [nOps EXCEPT !.SetCache = @ + 1]
    /\ argKey' = [argKey EXCEPT ![t] = k]
    /\ loc' = [loc EXCEPT ![t] = [LocIdle EXCEPT !.op = "SetCache", !.val = v]]
    /\ pc' = [pc EXCEPT ![t] = "add_lock"]
    /\ burst' = "no"
    /\ prev' = [u \in DOMAIN prev |-> NoPrev]
    /\ UNCHANGED <<lruVars, hkVars, libVars, sfVars, callOf, ret, obsVars, cacheVars, peers, regCall, rpcs, loads,
                   del, stable, want>>

\* cache.add, lines 47-50: take the shard's lock and add to the LRU
AddLock(t) ==
    /\ pc[t] = "add_lock"
    /\ shardMu[ShardIndex(argKey[t])] = 0
    /\ LET k == argKey[t]
           i == ShardIndex(k)
           c == LruAdd(shards[i], k, loc[t].val)
           st == [x \in GKeys |->
                    IF x = k \/ (ShardIndex(x) = i /\ x \in shards[i].cache
                                                   /\ x \notin c.cache)
                    THEN NoVal ELSE stable[x]]
       IN  /\ shardMu' = [shardMu EXCEPT ![i] = t]
           /\ shards' = [shards EXCEPT ![i] = c]
           /\ del' = [del EXCEPT ![k] = "no"]
           /\ stable' = st
           /\ want' = WantAfter(st)
    /\ pc' = [pc EXCEPT ![t] = "rk_test"]
    /\ prev' = OthersActed(t)
    /\ UNCHANGED <<lruVars, hkVars, libVars, sfVars, argKey, callOf, ret, obsVars, bfBits, cmsTable,
                   hotKeys, tasks, decay, reached, cacheBytes, peers, regCall, rpcs, loc, nOps, loads, burst>>

\* cache.add, line 52: the next step of RecordKey, the lock being held
RecordKeySync(t) ==
    /\ pc[t] \in RkPcs
    /\ LET n == RecordKeyStep(pc[t], argKey[t], loc[t].val)
       IN  /\ bfBits' = n.bits
           /\ cmsTable' = n.table
           /\ hotKeys' = n.hot
           /\ reached' = ReachedAfter(hotKeys, n.hot, n.table)
           /\ UNCHANGED cacheBytes
           /\ pc' = [pc EXCEPT ![t] = IF n.at = "rk_done" THEN "add_unlock" ELSE n.at]
    /\ prev' = OthersActed(t)
    /\ UNCHANGED <<lruVars, hkVars, libVars, sfVars, argKey, callOf, ret, obsVars, shards, shardMu,
                   tasks, decay, peers, regCall, rpcs, loc, nOps, loads, burst, del, stable, want>>

\* the calls to the replicas, stopping after the first of them
SentToFirst(rpc, v) ==
    [i \in 1..(IF peers.replicas = <<>> THEN 0 ELSE 1) |->
        [rpc |-> rpc, peer |-> peers.replicas[i], value |-> v]]

\* the calls Group.set and Group.Delete start towards the replicas
SentTo(rpc, v) ==
    [i \in 1..Len(peers.replicas) |-> [rpc |-> rpc, peer |-> peers.replicas[i], value |-> v]]

\* setCache going on to the replicas as set does
SetCacheSendsOn(v) == SentTo("Set", v)

\* the calls setCache starts after cache.add: none
SetCacheSends(v) == <<>>

\* the goroutines these calls run in, for key k
Started(calls, k) ==
    { [rpc |-> calls[i].rpc, peer |-> calls[i].peer, key |-> k, value |-> calls[i].value] :
        i \in 1..Len(calls) }

\* a call to a peer ends, well or not: `p.Set(...)` and `p.Delete(...)` are
\* statements, what they return is dropped
RpcDone(e) ==
    /\ e \in rpcs
    /\ \E ok \in BOOLEAN : rpcs' = rpcs \ {e}
    /\ UNCHANGED <<lruVars, hkVars, libVars, sfVars, thVars, obsVars, cacheVars, peers, regCall, loc, gobsVars>>

\* cache.add returns, releasing the lock; setCache returns; in a load, set
\* goes on to the replicas and getLocally's value is the result of fn
AddUnlock(t) ==
    /\ pc[t] = "add_unlock"
    /\ LET k == argKey[t]
       IN  /\ shardMu' = [shardMu EXCEPT ![ShardIndex(k)] = 0]
           /\ stable' = [stable EXCEPT ![k] =
                            IF k \in Shard(k).cache THEN loc[t].val ELSE NoVal]
    /\ IF loc[t].op = "SetCache"
       THEN /\ pc' = [pc EXCEPT ![t] = "returned"]
            /\ ret' = [ret EXCEPT ![t] = [value |-> "", err |-> ""]]
            /\ loc' = [loc EXCEPT ![t].sent = SetCacheSends(loc[t].val)]
            /\ UNCHANGED <<sfVars, argKey, callOf, obsVars, lruVars, hkVars, libVars>>
       ELSE /\ loc' = [loc EXCEPT ![t].sent = SentTo("Set", loc[t].val)]
            /\ FnAssign(t, [value |-> loc[t].val, err |-> ""])
    /\ rpcs' = rpcs \cup Started(loc'[t].sent, argKey[t])
    /\ prev' = OthersActed(t)
    /\ UNCHANGED <<shards, bfBits, cmsTable, hotKeys, tasks, decay, reached, cacheBytes, peers, regCall, nOps,
                   loads, burst, del, want>>

\* Group.Delete(k) is called; cache.delete, lines 87-92: under the shard's
\* lock, remove from the LRU
DeleteStart(t, k) ==
    /\ pc[t] = "idle" /\ nOps.Delete < MaxDeletes
    /\ shardMu[ShardIndex(k)] = 0
    /\ nOps' = [nOps EXCEPT !.Delete = @ + 1]
    /\ argKey' = [argKey EXCEPT ![t] = k]
    /\ loc' = [loc EXCEPT ![t] = [LocIdle EXCEPT !.op = "Delete"]]
    /\ shards' = [shards EXCEPT ![ShardIndex(k)] = LruRemove(@, k)]
    /\ pc' = [pc EXCEPT ![t] = "del_hot"]
    /\ burst' = "no"
    /\ prev' = [u \in DOMAIN prev |-> NoPrev]
    /\ del' = [del EXCEPT ![k] = "removing"]
    /\ LET st == [stable EXCEPT ![k] = NoVal]
       IN  stable' = st /\ want' = WantAfter(st)
    /\ UNCHANGED <<lruVars, hkVars, libVars, sfVars, callOf, ret, obsVars, shardMu, bfBits, cmsTable,
                   hotKeys, tasks, decay, reached, cacheBytes, peers, regCall, rpcs, loads>>

\* cache.delete, line 95, then Group.Delete's calls to the replicas
DeleteHot(t) ==
    /\ pc[t] = "del_hot"
    /\ hotKeys' = MapDelete(hotKeys, argKey[t])
    /\ reached' = ReachedAfter(hotKeys, hotKeys', cmsTable)
    /\ UNCHANGED cacheBytes
    /\ loc' = [loc EXCEPT ![t].sent = SentTo("Delete", NoVal)]
    /\ rpcs' = rpcs \cup Started(loc'[t].sent, argKey[t])
    /\ pc' = [pc EXCEPT ![t] = "returned"]
    /\ ret' = [ret EXCEPT ![t] = [value |-> "", err |-> ""]]
    /\ del' = [del EXCEPT ![argKey[t]] = IF @ = "removing" THEN "done" ELSE @]
    /\ prev' = OthersActed(t)
    /\ UNCHANGED <<lruVars, hkVars, libVars, sfVars, argKey, callOf, obsVars, shards, shardMu, bfBits,
                   cmsTable, tasks, decay, peers, regCall, nOps, loads, burst, stable, want>>

\* the caller has used what the operation returned and is ready for its next
GNext(t) ==
    /\ SfNext(t)
    /\ loc' = [loc EXCEPT ![t] = LocIdle]
    /\ want' = [want EXCEPT ![t] = NoVal]
    /\ prev' = [OthersActed(t) EXCEPT ![t] = IF @.stage = "second" THEN NoPrev ELSE @]
    /\ UNCHANGED <<cacheVars, peers, regCall, rpcs, nOps, loads, burst, del, stable>>

Next ==
    \/ \E p \in Pickers : RegisterPeers(p)
    \/ \E t \in DOMAIN pc, k \in GKeys \cup {EmptyKey} : GetStart(t, k)
    \/ \E t \in DOMAIN pc : CacheGet(t)
    \/ \E t \in DOMAIN pc : GDoLock(t)
    \/ \E t \in DOMAIN pc : GDoWait(t)
    \/ \E t \in DOMAIN pc : PeerGet(t)
    \/ \E t \in DOMAIN pc : Loader(t)
    \/ \E t \in DOMAIN pc, k \in GKeys, v \in PushValues : SetCacheStart(t, k, v)
    \/ \E t \in DOMAIN pc : AddLock(t)
    \/ \E t \in DOMAIN pc : RecordKeySync(t)
    \/ \E t \in DOMAIN pc : AddUnlock(t)
    \/ \E t \in DOMAIN pc : GDoDone(t)
    \/ \E t \in DOMAIN pc : GDoDelete(t)
    \/ \E t \in DOMAIN pc, k \in GKeys : DeleteStart(t, k)
    \/ \E t \in DOMAIN pc : DeleteHot(t)
    \/ \E t \in DOMAIN pc : GNext(t)
    \/ \E e \in BagToSet(tasks) : TaskStep(e)
    \/ \E e \in rpcs : RpcDone(e)
    \/ DecayLoad
    \/ DecayStore
    \/ DecayRange
    \/ DecayDemote

Spec == Init /\ [][Next]_vars

(***************************************************************************)
(* One goroutine calling Get, setCache and Delete one after the other on   *)
(* groups of several sizes, with the RecordKey goroutines that cache.get   *)
(* starts.                                                                 *)
(***************************************************************************)
\* cacheBytes of the groups
BudgetChoices == {8, 256, 2048}

InitBudget == \E total \in BudgetChoices : NewGroupState(total)

NextBudget ==
    \/ \E k \in GKeys \cup {EmptyKey} : GetStart(1, k)
    \/ CacheGet(1)
    \/ GDoLock(1)
    \/ Loader(1)
    \/ \E k \in GKeys, v \in PushValues : SetCacheStart(1, k, v)
    \/ AddLock(1)
    \/ RecordKeySync(1)
    \/ AddUnlock(1)
    \/ GDoDone(1)
    \/ GDoDelete(1)
    \/ \E k \in GKeys : DeleteStart(1, k)
    \/ DeleteHot(1)
    \/ GNext(1)
    \/ \E e \in BagToSet(tasks) : TaskStep(e)

SpecBudget == InitBudget /\ [][NextBudget]_vars

(***************************************************************************)
(* One goroutine calling Get again and again on a group that may have a    *)
(* picker, with the goroutines that the Gets start.                        *)
(***************************************************************************)
\* the Gets of the goroutine
MaxSeqGets == 3

NextPeer ==
    \/ \E p \in Pickers : RegisterPeers(p)
    \/ \E k \in GKeys : GetStartUpTo(1, k, MaxSeqGets)
    \/ CacheGet(1)
    \/ GDoLock(1)
    \/ PeerGet(1)
    \/ Loader(1)
    \/ AddLock(1)
    \/ RecordKeySync(1)
    \/ AddUnlock(1)
    \/ GDoDone(1)
    \/ GDoDelete(1)
    \/ GNext(1)
    \/ \E e \in BagToSet(tasks) : TaskStep(e)
    \/ \E e \in rpcs : RpcDone(e)

SpecPeer == Init /\ [][NextPeer]_vars

(***************************************************************************)
(* The goroutines of Spec under a scheduler that lets every goroutine that *)
(* can take a step take one: the callers inside an operation and the       *)
(* RecordKey goroutines.  The getter and the peers return (Loader and      *)
(* PeerGet are steps like the others).  Nothing is assumed of the ticker,  *)
(* and the calls of Set and Delete to the replicas need not end.           *)
(***************************************************************************)
\* the Gets of the goroutines together, without a picker
MaxLiveGets == 2

\* the next step of goroutine t inside its operation
ThreadStep(t) ==
    \/ CacheGet(t) \/ GDoLock(t) \/ GDoWait(t) \/ PeerGet(t) \/ Loader(t)
    \/ AddLock(t) \/ RecordKeySync(t) \/ AddUnlock(t) \/ GDoDone(t) \/ GDoDelete(t)
    \/ DeleteHot(t)

NextLive ==
    \/ \E p \in Pickers : RegisterPeers(p)
    \/ \E t \in DOMAIN pc, k \in GKeys :
          GetStartUpTo(t, k, IF peers.set THEN MaxPeerGets ELSE MaxLiveGets)
    \/ \E t \in DOMAIN pc, k \in GKeys, v \in PushValues : SetCacheStart(t, k, v)
    \/ \E t \in DOMAIN pc, k \in GKeys : DeleteStart(t, k)
    \/ \E t \in DOMAIN pc : ThreadStep(t)
    \/ \E t \in DOMAIN pc : GNext(t)
    \/ \E e \in BagToSet(tasks) : TaskStep(e)
    \/ DecayLoad
    \/ DecayStore
    \/ DecayRange
    \/ DecayDemote

SpecLive ==
    /\ Init /\ [][NextLive]_vars
    /\ \A t \in 1..NumThreads : WF_vars(ThreadStep(t))
    /\ WF_vars(\E e \in BagToSet(tasks) : TaskStep(e))

(***************************************************************************)
(* SpecHK: one HotKeyDetector, its RecordKey, GetHot and decay tick called *)
(* one after the other, as the tests of hotkeydetector_test.go do.         *)
(***************************************************************************)
\* the largest threshold a detector is constructed with
MaxThreshold == 3

\* RecordKey calls per key between two decay ticks
MaxRecords == 5

\* decay ticks
MaxHkTicks == 2

HkKeys == {KeyA, KeyB}

HkValues == {"V", "W"}

HkCells == UNION { CmsCellsOf(k) : k \in HkKeys }

NoGot == [key |-> EmptyKey, value |-> "", ok |-> FALSE]

\* RecordKey(key, value) run to its end: the filter, the sketch and the hot
\* keys afterwards
RecordKey(d, k, v) ==
    IF ~BloomTest(d.bits, k)
    THEN [d EXCEPT !.bits = BloomAdd(d.bits, k)]
    ELSE LET added == CmsAdd(d.table, k, 1)
         IN  IF Promote(CmsCount(added, k), d.threshold)
             THEN [d EXCEPT !.table = added, !.hot = HotStore(d.hot, k, v)]
             ELSE [d EXCEPT !.table = added]

\* GetHot(key)
GetHot(hot, k) ==
    IF k \in DOMAIN hot THEN [value |-> hot[k], ok |-> TRUE]
                        ELSE [value |-> "", ok |-> FALSE]

\* CountMinSketch.Decay run to its end: every counter halved
CmsDecay(table) == [cell \in DOMAIN table |-> table[cell] \div 2]

\* the Range demoting below the promotion threshold
DemoteBelowThreshold(hot, table, th) ==
    [k \in {x \in DOMAIN hot : ~(CmsCount(table, x) < th)} |-> hot[k]]

\* periodicDecay, lines 77-86: the keys the Range leaves among the hot keys
Demote(hot, table, th) ==
    [k \in {x \in DOMAIN hot : ~(CmsCount(table, x) < th \div 2)} |-> hot[k]]

\* NewHotKeyDetector(threshold, decayInterval)
InitHK ==
    /\ lru = LruNew(0, FALSE)
    /\ lastOp = [op |-> "New", key |-> <<>>, value |-> "", ok |-> FALSE]
    /\ scen = -1
    /\ scenLog = <<>>
    /\ sfM = <<>> /\ sfCalls = <<>>
    /\ pc = <<>> /\ argKey = <<>> /\ callOf = <<>> /\ ret = <<>>
    /\ running = <<>> /\ flight = <<>> /\ ranFn = <<>> /\ expect = <<>>
    /\ late = <<>>
    /\ shards = <<>> /\ shardMu = <<>> /\ peers = <<>> /\ regCall = <<>> /\ tasks = <<>>
    /\ decay = <<>> /\ reached = <<>> /\ cacheBytes = 0 /\ loc = <<>> /\ rpcs = {}
    /\ nOps = 0 /\ loads = 0 /\ burst = "no" /\ prev = <<>> /\ del = <<>>
    /\ stable = <<>> /\ want = <<>>
    /\ bfBits = {}
    /\ cmsTable = [cell \in HkCells |-> 0]
    /\ hotKeys = <<>>
    /\ threshold \in 0..MaxThreshold
    /\ hkCalls = [k \in HkKeys |-> 0]
    /\ hkLast = [k \in HkKeys |-> NoVal]
    /\ hkGot = NoGot
    /\ hkTicks = 0
    /\ stopCh = "open"
    /\ hkTask = "running"
    /\ hkStop = "none"
    /\ LibUnused

HkOthers == <<lruVars, sfVars, thVars, obsVars, shards, shardMu, peers, regCall, tasks, decay, reached, cacheBytes,
              loc, rpcs, gobsVars, libVars>>

\* a panic that nothing recovers ends the process
Alive == hkStop # "panic"

\* a call h.RecordKey(k, v)
HkRecordKey(k, v) ==
    /\ Alive
    /\ hkCalls[k] < MaxRecords
    /\ LET d == RecordKey([bits |-> bfBits, table |-> cmsTable, hot |-> hotKeys,
                           threshold |-> threshold], k, v)
       IN  /\ bfBits' = d.bits
           /\ cmsTable' = d.table
           /\ hotKeys' = d.hot
    /\ hkCalls' = [hkCalls EXCEPT ![k] = @ + 1]
    /\ hkLast' = [hkLast EXCEPT ![k] = v]
    /\ UNCHANGED <<threshold, hkGot, hkTicks, stopCh, hkTask, hkStop, HkOthers>>

\* a call h.GetHot(k)
HkGetHot(k) ==
    /\ Alive
    /\ hkGot' = [key |-> k, value |-> GetHot(hotKeys, k).value, ok |-> GetHot(hotKeys, k).ok]
    /\ UNCHANGED <<bfBits, cmsTable, hotKeys, threshold, hkCalls, hkLast, hkTicks,
                   stopCh, hkTask, hkStop, HkOthers>>

\* periodicDecay, lines 74-86: the ticker fires
HkDecay ==
    /\ Alive /\ hkTask = "running"
    /\ hkTicks < MaxHkTicks
    /\ hkTicks' = hkTicks + 1
    /\ cmsTable' = CmsDecay(cmsTable)
    /\ hotKeys' = Demote(hotKeys, cmsTable', threshold)
    /\ hkCalls' = [k \in HkKeys |-> 0]
    /\ UNCHANGED <<bfBits, threshold, hkLast, hkGot, stopCh, hkTask, hkStop, HkOthers>>

\* a close that leaves the channel open
CloseNothing(ch) == [ch |-> ch, panic |-> FALSE]

\* close(ch): a closed channel cannot be closed again, the call panics
Close(ch) == IF ch = "open" THEN [ch |-> "closed", panic |-> FALSE]
                            ELSE [ch |-> ch, panic |-> TRUE]

\* a call h.Stop(): close(h.stopCh)
HkStop ==
    /\ Alive
    /\ stopCh' = Close(stopCh).ch
    /\ hkStop' = IF Close(stopCh).panic THEN "panic" ELSE "returned"
    /\ UNCHANGED <<bfBits, cmsTable, hotKeys, threshold, hkCalls, hkLast, hkGot, hkTicks,
                   hkTask, HkOthers>>

\* periodicDecay, lines 87-88: `case <-h.stopCh: return`
HkTaskExit ==
    /\ Alive /\ hkTask = "running"
    /\ stopCh = "closed"
    /\ hkTask' = "ended"
    /\ UNCHANGED <<bfBits, cmsTable, hotKeys, threshold, hkCalls, hkLast, hkGot, hkTicks,
                   stopCh, hkStop, HkOthers>>

NextHK ==
    \/ \E k \in HkKeys, v \in HkValues : HkRecordKey(k, v)
    \/ \E k \in HkKeys : HkGetHot(k)
    \/ HkDecay
    \/ HkStop
    \/ HkTaskExit

SpecHK == InitHK /\ [][NextHK]_vars

\* SpecStop: a detector with threshold 2 and one key in use, to follow the
\* decay goroutine to its end.  The goroutine is scheduled: once the stop
\* channel is closed, its select takes `case <-h.stopCh` at some turn.
InitStop == InitHK /\ threshold = 2

NextStop ==
    \/ \E v \in HkValues : HkRecordKey(KeyA, v)
    \/ HkGetHot(KeyA)
    \/ HkDecay
    \/ HkStop
    \/ HkTaskExit

SpecStop == InitStop /\ [][NextStop]_vars /\ WF_vars(HkTaskExit)

(***************************************************************************)
(* SpecBF: one BloomFilter whose Add and Test are called by several        *)
(* goroutines at once, as TestBloomFilter_ConcurrentAccess does.  The      *)
(* filter is small, so that the bits of different keys share a word and    *)
(* some key tests positive without having been added.                      *)
(***************************************************************************)
\* NewBloomFilter(BfSize, BfHashes)
BfSize == 16
BfHashes == 2

\* goroutines using the filter
NumBf == 2

BfKeys == {KeyA, KeyB, KeyC}

\* the variables of the specifications of package distcache, unused
CoreUnused ==
    /\ lru = LruNew(0, FALSE)
    /\ lastOp = [op |-> "New", key |-> <<>>, value |-> "", ok |-> FALSE]
    /\ scen = -1
    /\ scenLog = <<>>
    /\ sfM = <<>> /\ sfCalls = <<>>
    /\ pc = <<>> /\ argKey = <<>> /\ callOf = <<>> /\ ret = <<>>
    /\ running = <<>> /\ flight = <<>> /\ ranFn = <<>> /\ expect = <<>>
    /\ late = <<>>
    /\ shards = <<>> /\ shardMu = <<>> /\ peers = <<>> /\ regCall = <<>> /\ tasks = <<>>
    /\ decay = <<>> /\ reached = <<>> /\ cacheBytes = 0 /\ loc = <<>> /\ rpcs = {}
    /\ nOps = 0 /\ loads = 0 /\ burst = "no" /\ prev = <<>> /\ del = <<>>
    /\ stable = <<>> /\ want = <<>>

HkUnused ==
    /\ threshold = 0 /\ hkCalls = <<>> /\ hkLast = <<>> /\ hkGot = <<>> /\ hkTicks = 0
    /\ stopCh = "open" /\ hkTask = "running" /\ hkStop = "none"

\* BloomFilter.hash(key, i) of a filter of m bits
BfHash(k, i, m) == (Mod32(Fnv32a(k), m) + i * Mod32(ForceOdd(Fnv32(k)), m)) % m

\* idx := bf.hash(key, i) % bf.m, for every key in use, computed once
BfIdxOf == [k \in BfKeys |-> [i \in 0..(BfHashes - 1) |-> BfHash(k, i, BfSize) % BfSize]]

BfIdx(k, i) == BfIdxOf[k][i]

\* the bits Add(k) sets
BfProbes(k) == { BfIdx(k, i) : i \in 0..(BfHashes - 1) }

\* bf.bits[idx/64]: the bits that are set in the word of bit idx
Word(bits, idx) == { b \in bits : b \div 64 = idx \div 64 }

\* bf.bits[idx/64] = word
StoreWord(bits, idx, word) == (bits \ Word(bits, idx)) \cup word

\* bf.mutex.Lock() never waiting
MutexFreeAlways(mu) == TRUE

\* bf.mutex.Lock() can proceed
MutexFree(mu) == mu = 0

BfIdle == [pc |-> "idle", op |-> "none", key |-> <<>>, i |-> 0, word |-> {},
           res |-> FALSE, pre |-> FALSE]

\* NewBloomFilter
InitBF ==
    /\ CoreUnused /\ HkUnused
    /\ cmsTable = <<>> /\ hotKeys = <<>>
    /\ bfBits = {}
    /\ bfMutex = 0
    /\ bfG = [g \in 1..NumBf |-> BfIdle]
    /\ bfAdded = {}
    /\ CmsUnused /\ RingUnused /\ ClUnused

BfOthers == <<lruVars, sfVars, thVars, obsVars, shards, shardMu, cmsTable, hotKeys, peers, regCall,
              tasks, decay, reached, cacheBytes, loc, rpcs, gobsVars, hkVars, cmsVars, ringVars, clVars>>

\* a goroutine calls bf.Add(k) or bf.Test(k)
BfCall(g, op, k) ==
    /\ bfG[g].pc = "idle"
    /\ bfG' = [bfG EXCEPT ![g] = [BfIdle EXCEPT !.pc = "lock", !.op = op, !.key = k,
                                                !.pre = (k \in bfAdded)]]
    /\ UNCHANGED <<bfBits, bfMutex, bfAdded, BfOthers>>

\* bf.mutex.Lock()
BfLock(g) ==
    /\ bfG[g].pc = "lock"
    /\ MutexFree(bfMutex)
    /\ bfMutex' = g
    /\ bfG' = [bfG EXCEPT ![g].pc = IF bfG[g].op = "Add" THEN "load" ELSE "test"]
    /\ UNCHANGED <<bfBits, bfAdded, BfOthers>>

\* Add, line 343: the word of bit idx is read
BfLoad(g) ==
    /\ bfG[g].pc = "load"
    /\ bfG' = [bfG EXCEPT ![g].word = Word(bfBits, BfIdx(bfG[g].key, bfG[g].i)),
                          ![g].pc = "store"]
    /\ UNCHANGED <<bfBits, bfMutex, bfAdded, BfOthers>>

\* Add, line 343: the word with bit idx set is written back; next i
BfStore(g) ==
    /\ bfG[g].pc = "store"
    /\ LET idx == BfIdx(bfG[g].key, bfG[g].i)
       IN  bfBits' = StoreWord(bfBits, idx, bfG[g].word \cup {idx})
    /\ bfG' = [bfG EXCEPT ![g].i = @ + 1, ![g].word = {},
                          ![g].pc = IF bfG[g].i + 1 < BfHashes THEN "load" ELSE "unlock"]
    /\ UNCHANGED <<bfMutex, bfAdded, BfOthers>>

\* Test, lines 350-355: one turn of the loop
BfTestBit(g) ==
    /\ bfG[g].pc = "test"
    /\ LET idx == BfIdx(bfG[g].key, bfG[g].i)
       IN  bfG' = IF idx \notin Word(bfBits, idx)
                  THEN [bfG EXCEPT ![g].res = FALSE, ![g].pc = "unlock"]
                  ELSE IF bfG[g].i + 1 < BfHashes
                  THEN [bfG EXCEPT ![g].i = @ + 1]
                  ELSE [bfG EXCEPT ![g].res = TRUE, ![g].pc = "unlock"]
    /\ UNCHANGED <<bfBits, bfMutex, bfAdded, BfOthers>>

\* defer bf.mutex.Unlock(), and the call returns
BfUnlock(g) ==
    /\ bfG[g].pc = "unlock"
    /\ bfMutex' = 0
    /\ bfG' = [bfG EXCEPT ![g].pc = "done"]
    /\ bfAdded' = IF bfG[g].op = "Add" THEN bfAdded \cup {bfG[g].key} ELSE bfAdded
    /\ UNCHANGED <<bfBits, BfOthers>>

\* the caller has used the result and is ready for its next call
BfNext(g) ==
    /\ bfG[g].pc = "done"
    /\ bfG' = [bfG EXCEPT ![g] = BfIdle]
    /\ UNCHANGED <<bfBits, bfMutex, bfAdded, BfOthers>>

NextBF ==
    \/ \E g \in DOMAIN bfG, op \in {"Add", "Test"}, k \in BfKeys : BfCall(g, op, k)
    \/ \E g \in DOMAIN bfG : BfLock(g)
    \/ \E g \in DOMAIN bfG : BfLoad(g)
    \/ \E g \in DOMAIN bfG : BfStore(g)
    \/ \E g \in DOMAIN bfG : BfTestBit(g)
    \/ \E g \in DOMAIN bfG : BfUnlock(g)
    \/ \E g \in DOMAIN bfG : BfNext(g)

SpecBF == InitBF /\ [][NextBF]_vars

(***************************************************************************)
(* SpecCMS: one CountMinSketch whose Add, Count and Decay are called by    *)
(* several goroutines at once, as TestCountMinSketch_ConcurrentAccess and  *)
(* the detector's periodicDecay do.  The sketch is small, so that keys     *)
(* share counters.                                                         *)
(***************************************************************************)
\* the table of NewCountMinSketch(1.0, 0.2): width = ceil(e / 1.0),
\* depth = ceil(ln(1 / 0.2))
SkWidth == 3
SkDepth == 2

\* goroutines using the sketch
NumCms == 2

\* calls of Add and of Decay
MaxAdds == 3
MaxDecays == 1

SkKeys == {KeyA, KeyB}

\* the counts added by one call
SkCounts == {1, 2}

\* idx := cms.hashes[i](key) % uint32(cms.width), for every key in use,
\* computed once
SkCellOf == [k \in SkKeys |-> [i \in 0..(SkDepth - 1) |->
                << i, Mod32(DoubleHash(k, i), SkWidth) % SkWidth >>]]

SkCell(k, i) == SkCellOf[k][i]

SkCells == { << i, j >> : i \in 0..(SkDepth - 1), j \in 0..(SkWidth - 1) }

\* an Add that leaves the counter as it was
AddUint64Lost(table, cell, c) == table

\* atomic.AddUint64(&cms.table[i][idx], count)
AddUint64(table, cell, c) == [table EXCEPT ![cell] = @ + c]

\* min := uint64(math.MaxUint64), written -1 here
NoMin == -1

\* `if v < min { min = v }`
MinWith(min, v) == IF min = NoMin \/ v < min THEN v ELSE min

\* what Count(k) returns when nothing else runs
SkCount(table, k) == Min({ table[SkCell(k, i)] : i \in 0..(SkDepth - 1) })

CmsIdle == [pc |-> "idle", op |-> "none", key |-> <<>>, c |-> 0, i |-> 0, min |-> NoMin,
            cells |-> {}, old |-> 0, res |-> 0, pre |-> 0, clean |-> FALSE]

\* NewCountMinSketch
InitCMS ==
    /\ CoreUnused /\ HkUnused /\ BfUnused /\ RingUnused /\ ClUnused
    /\ bfBits = {} /\ hotKeys = <<>>
    /\ cmsTable = [cell \in SkCells |-> 0]
    /\ cmsG = [g \in 1..NumCms |-> CmsIdle]
    /\ cmsTrue = [k \in SkKeys |-> 0]
    /\ cmsAdds = 0
    /\ cmsDecays = 0

CmsOthers == <<lruVars, sfVars, thVars, obsVars, shards, shardMu, bfBits, hotKeys, peers, regCall,
               tasks, decay, reached, cacheBytes, loc, rpcs, gobsVars, hkVars, bfVars, ringVars, clVars>>

\* a goroutine calls cms.Add(k, c)
CmsCallAdd(g, k, c) ==
    /\ cmsG[g].pc = "idle"
    /\ cmsAdds < MaxAdds
    /\ cmsAdds' = cmsAdds + 1
    /\ cmsG' = [cmsG EXCEPT ![g] = [CmsIdle EXCEPT !.pc = "add", !.op = "Add", !.key = k,
                                                  !.c = c]]
    /\ UNCHANGED <<cmsTable, cmsTrue, cmsDecays, CmsOthers>>

\* Add, lines 39-42: one turn of the loop; after the last one Add returns
CmsAddRow(g) ==
    /\ cmsG[g].pc = "add"
    /\ cmsTable' = AddUint64(cmsTable, SkCell(cmsG[g].key, cmsG[g].i), cmsG[g].c)
    /\ IF cmsG[g].i + 1 < SkDepth
       THEN /\ cmsG' = [cmsG EXCEPT ![g].i = @ + 1]
            /\ cmsTrue' = cmsTrue
       ELSE /\ cmsG' = [cmsG EXCEPT ![g].pc = "done"]
            /\ cmsTrue' = [cmsTrue EXCEPT ![cmsG[g].key] = @ + cmsG[g].c]
    /\ UNCHANGED <<cmsDecays, cmsAdds, CmsOthers>>

\* a goroutine calls cms.Count(k)
CmsCallCount(g, k) ==
    /\ cmsG[g].pc = "idle"
    /\ cmsG' = [cmsG EXCEPT ![g] = [CmsIdle EXCEPT !.pc = "count", !.op = "Count", !.key = k,
                                                  !.pre = cmsTrue[k],
                                                  !.clean = (cmsDecays = 0)]]
    /\ UNCHANGED <<cmsTable, cmsTrue, cmsDecays, cmsAdds, CmsOthers>>

\* Count, lines 47-53: one turn of the loop; after the last one Count returns min
CmsCountRow(g) ==
    /\ cmsG[g].pc = "count"
    /\ LET m == MinWith(cmsG[g].min, cmsTable[SkCell(cmsG[g].key, cmsG[g].i)])
       IN  cmsG' = IF cmsG[g].i + 1 < SkDepth
                   THEN [cmsG EXCEPT ![g].i = @ + 1, ![g].min = m]
                   ELSE [cmsG EXCEPT ![g].pc = "done", ![g].min = m, ![g].res = m,
                                     ![g].clean = (@ /\ cmsDecays = 0)]
    /\ UNCHANGED <<cmsTable, cmsTrue, cmsDecays, cmsAdds, CmsOthers>>

\* a goroutine calls cms.Decay() and reads the first cell
CmsCallDecay(g) ==
    /\ cmsG[g].pc = "idle"
    /\ cmsDecays < MaxDecays
    /\ cmsDecays' = cmsDecays + 1
    /\ cmsG' = [cmsG EXCEPT ![g] = [CmsIdle EXCEPT !.pc = "store", !.op = "Decay",
                                                  !.cells = SkCells,
                                                  !.old = cmsTable[NextCell(SkCells)]]]
    /\ UNCHANGED <<cmsTable, cmsTrue, cmsAdds, CmsOthers>>

\* Decay, line 61: old := atomic.LoadUint64(&cms.table[i][j])
CmsDecayLoad(g) ==
    /\ cmsG[g].pc = "load"
    /\ cmsG' = [cmsG EXCEPT ![g].pc = "store", ![g].old = cmsTable[NextCell(cmsG[g].cells)]]
    /\ UNCHANGED <<cmsTable, cmsTrue, cmsDecays, cmsAdds, CmsOthers>>

\* Decay, line 62: atomic.StoreUint64(&cms.table[i][j], old/2)
CmsDecayStore(g) ==
    /\ cmsG[g].pc = "store"
    /\ cmsTable' = [cmsTable EXCEPT ![NextCell(cmsG[g].cells)] = cmsG[g].old \div 2]
    /\ LET rest == cmsG[g].cells \ {NextCell(cmsG[g].cells)}
       IN  cmsG' = IF rest = {}
                   THEN [cmsG EXCEPT ![g].pc = "done", ![g].cells = {}, ![g].old = 0]
                   ELSE [cmsG EXCEPT ![g].pc = "load", ![g].cells = rest, ![g].old = 0]
    /\ UNCHANGED <<cmsTrue, cmsDecays, cmsAdds, CmsOthers>>

\* the caller has used the result and is ready for its next call
CmsNext(g) ==
    /\ cmsG[g].pc = "done"
    /\ cmsG' = [cmsG EXCEPT ![g] = CmsIdle]
    /\ UNCHANGED <<cmsTable, cmsTrue, cmsDecays, cmsAdds, CmsOthers>>

NextCMS ==
    \/ \E g \in DOMAIN cmsG, k \in SkKeys, c \in SkCounts : CmsCallAdd(g, k, c)
    \/ \E g \in DOMAIN cmsG : CmsAddRow(g)
    \/ \E g \in DOMAIN cmsG, k \in SkKeys : CmsCallCount(g, k)
    \/ \E g \in DOMAIN cmsG : CmsCountRow(g)
    \/ \E g \in DOMAIN cmsG : CmsCallDecay(g)
    \/ \E g \in DOMAIN cmsG : CmsDecayLoad(g)
    \/ \E g \in DOMAIN cmsG : CmsDecayStore(g)
    \/ \E g \in DOMAIN cmsG : CmsNext(g)

SpecCMS == InitCMS /\ [][NextCMS]_vars

(***************************************************************************)
(* SpecRing: one consistenthash.Map, used alone through Add, Get and GetN  *)
(* or inside a GRPCPool through SetPeers, PickPeer and ReplicaPeersForKey. *)
(* The hash function is a parameter of New: it is any function from byte   *)
(* strings to 0..MaxHash, whose values are drawn when a name is first      *)
(* hashed.  The name strconv.Itoa(i) + key of a virtual node is written    *)
(* <<i, key>>; for one-digit i the two determine each other.               *)
(***************************************************************************)
\* the largest value of the hash function
MaxHash == 3

\* the largest number of virtual nodes per peer (50 in SetPeers)
MaxReplicas == 2

\* the largest len(m.keys)
MaxRingKeys == 4

\* the largest n passed to GetN
MaxN == 3

RingPeers == {"p", "q", "r", "s"}

\* defaultReplicaNodeCount
defaultReplicaNodeCount == 2

NilMap == [nil |-> TRUE, replicas |-> 0, keys |-> <<>>, hashMap |-> <<>>]

\* consistenthash.New(replicas, fn)
MapNew(replicas) == [nil |-> FALSE, replicas |-> replicas, keys |-> <<>>, hashMap |-> <<>>]

\* sort.Ints
RECURSIVE SortInts(_)
SortInts(q) ==
    IF q = <<>> THEN <<>>
    ELSE LET i == CHOOSE j \in DOMAIN q : \A l \in DOMAIN q : q[j] <= q[l]
         IN  <<q[i]>> \o SortInts([l \in 1..(Len(q) - 1) |-> IF l < i THEN q[l] ELSE q[l + 1]])

\* the virtual nodes of a peer
VNodes(replicas, peer) == [i \in 1..replicas |-> <<i - 1, peer>>]

\* Add, lines 34-38, for one key: every hash is appended and hashMap[hash] = key
RECURSIVE AddNodes(_, _, _)
AddNodes(m, nodes, h) ==
    IF nodes = <<>> THEN m
    ELSE AddNodes([m EXCEPT !.keys = Append(@, h[Head(nodes)]),
                            !.hashMap = (h[Head(nodes)] :> Head(nodes)[2]) @@ @],
                  Tail(nodes), h)

\* Add, lines 33-39: the loop over the keys
RECURSIVE AddKeys(_, _, _)
AddKeys(m, ps, h) ==
    IF ps = <<>> THEN m
    ELSE AddKeys(AddNodes(m, VNodes(m.replicas, Head(ps)), h), Tail(ps), h)

\* Map.Add(keys...)
MapAdd(m, ps, h) ==
    LET n == AddKeys(m, ps, h) IN [n EXCEPT !.keys = SortInts(n.keys)]

\* sort.Search(len(m.keys), func(i) { return m.keys[i] >= hash }), counted from 0
Search(keys, hash) ==
    IF \E i \in DOMAIN keys : keys[i] >= hash
    THEN (CHOOSE i \in DOMAIN keys :
              keys[i] >= hash /\ \A j \in 1..(i - 1) : keys[j] < hash) - 1
    ELSE Len(keys)

\* the node one position further on the ring
NodeAtNext(m, idx) == m.hashMap[m.keys[((idx + 1) % Len(m.keys)) + 1]]

\* m.hashMap[m.keys[idx % len(m.keys)]]
NodeAt(m, idx) == m.hashMap[m.keys[(idx % Len(m.keys)) + 1]]

\* Map.Get(key), for a key of the given hash
MapGet(m, hash) ==
    IF Len(m.keys) = 0 THEN "" ELSE NodeAt(m, Search(m.keys, hash))

\* GetN, lines 77-83: the loop from i on
RECURSIVE Walk(_, _, _, _, _)
Walk(m, idx, n, i, result) ==
    IF ~(Len(result) < n /\ i < Len(m.keys)) THEN result
    ELSE LET node == NodeAt(m, idx + i)
         IN  Walk(m, idx, n, i + 1,
                  IF \E j \in DOMAIN result : result[j] = node
                  THEN result ELSE Append(result, node))

\* totalNodes := len(m.hashMap)
TotalNodes(m) == Cardinality(DOMAIN m.hashMap)

\* Map.GetN(key, n), for a key of the given hash
MapGetN(m, hash, n) ==
    IF Len(m.keys) = 0 \/ n <= 0 THEN <<>>
    ELSE Walk(m, Search(m.keys, hash), IF n > TotalNodes(m) THEN TotalNodes(m) ELSE n,
              0, <<>>)

\* the names that Add(peers...) hashes
NamesOf(replicas, ps) ==
    { <<i, ps[j]>> : i \in 0..(replicas - 1), j \in DOMAIN ps }

\* the hash functions that agree with h on the names hashed so far and
\* give the names a value
Extensions(h, names) ==
    { f \in [DOMAIN h \cup names -> 0..MaxHash] : \A x \in DOMAIN h : f[x] = h[x] }

\* the elements of a sequence
Range(q) == { q[i] : i \in DOMAIN q }

\* the arguments of one call of Add
AddArgs == { <<a>> : a \in RingPeers } \cup { <<a, b>> : a, b \in RingPeers }

\* the arguments of SetPeers: the peers of a cluster, each once
Memberships ==
    { <<"p">>, <<"s">>, <<"p", "q">>, <<"q", "s">>, <<"p", "q", "r">>, <<"q", "r", "s">>,
      <<"p", "q", "r", "s">> }

\* what the last call returned; Add and SetPeers return nothing
NoOut == [op |-> "none", hash |-> 0, n |-> 0, res |-> <<>>, panic |-> FALSE]

\* New(replicas, fn), alone or as NewGRPCPool(self)
InitRing ==
    /\ CoreUnused /\ HkUnused /\ BfUnused /\ CmsUnused /\ ClUnused
    /\ bfBits = {} /\ cmsTable = <<>> /\ hotKeys = <<>>
    /\ \E owner \in {"map", "pool"}, replicas \in 1..MaxReplicas, self \in RingPeers :
          /\ pool = [owner |-> owner, self |-> IF owner = "pool" THEN self ELSE "",
                     replicas |-> replicas, grpcClients |-> {}]
          /\ ring = IF owner = "map" THEN MapNew(replicas) ELSE NilMap
    /\ ringHash = <<>>
    /\ ringAdded = {}
    /\ ringOut = NoOut

RingOthers == <<lruVars, sfVars, thVars, obsVars, grpVars, gobsVars, hkVars, bfVars, cmsVars, clVars>>

\* a call m.Add(ps...)
RingAdd(ps) ==
    /\ pool.owner = "map"
    /\ Len(ring.keys) + ring.replicas * Len(ps) <= MaxRingKeys
    /\ \E h \in Extensions(ringHash, NamesOf(ring.replicas, ps)) :
          /\ ringHash' = h
          /\ ring' = MapAdd(ring, ps, h)
    /\ ringAdded' = ringAdded \cup Range(ps)
    /\ ringOut' = NoOut
    /\ UNCHANGED <<pool, RingOthers>>

\* a call m.Get(key), the key hashing to hash
RingGet(hash) ==
    /\ pool.owner = "map"
    /\ ringOut' = [NoOut EXCEPT !.op = "Get", !.hash = hash, !.res = <<MapGet(ring, hash)>>]
    /\ UNCHANGED <<ring, ringHash, ringAdded, pool, RingOthers>>

\* a call m.GetN(key, n)
RingGetN(hash, n) ==
    /\ pool.owner = "map"
    /\ ringOut' = [NoOut EXCEPT !.op = "GetN", !.hash = hash, !.n = n,
                                !.res = MapGetN(ring, hash, n)]
    /\ UNCHANGED <<ring, ringHash, ringAdded, pool, RingOthers>>

\* a call p.SetPeers(ps...)
SetPeers(ps) ==
    /\ pool.owner = "pool"
    /\ ring.nil
    /\ pool.replicas * Len(ps) <= MaxRingKeys
    /\ \E h \in Extensions(ringHash, NamesOf(pool.replicas, ps)) :
          /\ ringHash' = h
          /\ ring' = MapAdd(MapNew(pool.replicas), ps, h)
    /\ ringAdded' = Range(ps)
    /\ pool' = [pool EXCEPT !.grpcClients = Range(ps)]
    /\ ringOut' = NoOut
    /\ UNCHANGED RingOthers

\* GRPCPool.PickPeer(key): p.peers.Get panics on a nil Map
PoolPickPeer(m, p, hash) ==
    IF m.nil THEN [NoOut EXCEPT !.op = "PickPeer", !.panic = TRUE]
    ELSE LET peer == MapGet(m, hash)
         IN  [NoOut EXCEPT !.op = "PickPeer",
                           !.res = IF peer # "" /\ peer # p.self THEN <<peer>> ELSE <<>>]

\* lines 171-176: the peers of replicaKeys other than self that have a client
RECURSIVE Others(_, _)
Others(replicaKeys, p) ==
    IF replicaKeys = <<>> THEN <<>>
    ELSE IF Head(replicaKeys) # p.self /\ Head(replicaKeys) \in p.grpcClients
    THEN <<Head(replicaKeys)>> \o Others(Tail(replicaKeys), p)
    ELSE Others(Tail(replicaKeys), p)

\* GRPCPool.ReplicaPeersForKey(key)
PoolReplicaPeersForKey(m, p, hash) ==
    IF m.nil THEN <<>> ELSE Others(MapGetN(m, hash, defaultReplicaNodeCount + 1), p)

\* a call p.PickPeer(key)
PickPeer(hash) ==
    /\ pool.owner = "pool"
    /\ ringOut' = PoolPickPeer(ring, pool, hash)
    /\ UNCHANGED <<ring, ringHash, ringAdded, pool, RingOthers>>

\* a call p.ReplicaPeersForKey(key)
ReplicaPeersForKey(hash) ==
    /\ pool.owner = "pool"
    /\ ringOut' = [NoOut EXCEPT !.op = "ReplicaPeersForKey",
                                !.res = PoolReplicaPeersForKey(ring, pool, hash)]
    /\ UNCHANGED <<ring, ringHash, ringAdded, pool, RingOthers>>

NextRing ==
    \/ \E ps \in AddArgs : RingAdd(ps)
    \/ \E hash \in 0..MaxHash : RingGet(hash)
    \/ \E hash \in 0..MaxHash, n \in 0..MaxN : RingGetN(hash, n)
    \/ \E ps \in Memberships : SetPeers(ps)
    \/ \E hash \in 0..MaxHash : PickPeer(hash)
    \/ \E hash \in 0..MaxHash : ReplicaPeersForKey(hash)

SpecRing == InitRing /\ [][NextRing]_vars

(***************************************************************************)
(* A cluster: every node runs a GRPCPool that was given the same peers by  *)
(* SetPeers and is registered as the picker of the node's group.  One key  *)
(* is followed.  A client sends Set and Delete requests to the servers;    *)
(* the servers send each other the Delete requests of replica propagation. *)
(***************************************************************************)
\* the nodes of the cluster, in the order given to SetPeers
ClMembers == <<"p", "q", "r">>

ClNodes == Range(ClMembers)

\* the largest number of requests in flight to one server that is told apart
MaxInFlight == 2

\* the largest number of propagated Delete requests that is told apart
MaxClRpcs == 6

\* the Set requests and the Delete requests of the client
MaxClSets == 1
MaxClDeletes == 1

\* a count, told apart up to a bound
UpTo(bound, n) == IF n > bound THEN bound ELSE n

\* NewGRPCPool and RegisterPeers on every node, the groups empty.  The pools
\* differ in self only: pool and ring stand for the pool of every node, and
\* SetPeers(ClMembers) for the call on every node.
InitDel ==
    /\ CoreUnused /\ HkUnused /\ BfUnused /\ CmsUnused
    /\ bfBits = {} /\ cmsTable = <<>> /\ hotKeys = <<>>
    /\ pool = [owner |-> "pool", self |-> "", replicas |-> 1, grpcClients |-> {}]
    /\ ring = NilMap
    /\ ringHash = <<>>
    /\ ringAdded = {}
    /\ ringOut = NoOut
    /\ clCache = [n \in ClNodes |-> FALSE]
    /\ clNet = [n \in ClNodes |-> 0]
    /\ \E hash \in 0..MaxHash : clObs = [hash |-> hash, sets |-> 0, deletes |-> 0, rpcs |-> 0]

ClOthers == <<lruVars, sfVars, thVars, obsVars, grpVars, gobsVars, hkVars, bfVars, cmsVars, ringVars>>

\* p.ReplicaPeersForKey(key) on the pool of node n
ClReplicas(n) == PoolReplicaPeersForKey(ring, [pool EXCEPT !.self = n], clObs.hash)

\* `go func(pg PeerClient) { pg.Delete(group, key) }(peer)` for each peer of ps
RECURSIVE SendDeletes(_, _)
SendDeletes(net, ps) ==
    IF ps = <<>> THEN net
    ELSE SendDeletes([net EXCEPT ![Head(ps)] = UpTo(MaxInFlight, @ + 1)], Tail(ps))

\* Group.Delete(key), lines 127-132: the loop over g.peers.ReplicaPeersForKey(key)
GroupDeleteSends(net, ps) == SendDeletes(net, ps)

\* GRPCPool.Delete, lines 84-90: the loop over p.ReplicaPeersForKey(req.Key)
HandlerDeleteSends(net, ps) == SendDeletes(net, ps)

\* GRPCPool.Set on node n, for a Set request of the client
ClSet(n) ==
    /\ clObs.sets < MaxClSets
    /\ clCache' = [clCache EXCEPT ![n] = TRUE]
    /\ clObs' = [clObs EXCEPT !.sets = @ + 1]
    /\ UNCHANGED <<clNet, ClOthers>>

\* the client calls Delete(group, key) on the server of node n
ClientDelete(n) ==
    /\ clObs.deletes < MaxClDeletes
    /\ clNet' = [clNet EXCEPT ![n] = UpTo(MaxInFlight, @ + 1)]
    /\ clObs' = [clObs EXCEPT !.deletes = @ + 1]
    /\ UNCHANGED <<clCache, ClOthers>>

\* GRPCPool.Delete on node n, for a Delete request in flight to it
PoolDelete(n) ==
    /\ clNet[n] > 0
    /\ clCache' = [clCache EXCEPT ![n] = FALSE]
    /\ \E ps \in {ClReplicas(n)} :
          /\ clNet' = HandlerDeleteSends(GroupDeleteSends([clNet EXCEPT ![n] = @ - 1], ps), ps)
          /\ clObs' = [clObs EXCEPT !.rpcs = UpTo(MaxClRpcs, @ + 2 * Len(ps))]
    /\ UNCHANGED ClOthers

NextDel ==
    \/ SetPeers(ClMembers)
    \/ \E n \in ClNodes : ClSet(n)
    \/ \E n \in ClNodes : ClientDelete(n)
    \/ \E n \in ClNodes : PoolDelete(n)

\* the server runs the handler of every request it receives
SpecDel == InitDel /\ [][NextDel]_vars /\ WF_vars(\E n \in ClNodes : PoolDelete(n))


----------------------------------------------------------------------------
IsGet(t) == loc[t].op = "Get"

\* C2: when the Gets of a key that is not cached are issued concurrently
\* (each starts before any has returned; no picker is registered; the getter
\* returns its value), all of them return that value and the getter is
\* called exactly once.
C2_CoalescedLoad ==
    burst \in {"yes", "closed"} =>
        /\ loads <= 1
        /\ \A t \in DOMAIN pc :
              (Returned(t) /\ IsGet(t)) =>
                  (loads = 1 /\ ret[t] = [value |-> GetterValue, err |-> ""])

\* C3: after a Get of k has returned v from the getter with k in the cache,
\* the Get of k that the same goroutine issues next, no other caller having
\* acted in between, returns v and does not call the getter.
C3_RoundTrip ==
    \A t \in DOMAIN pc :
        prev[t].stage = "second" =>
            /\ ~loc[t].ranLoader
            /\ Returned(t) => ret[t] = [value |-> prev[t].value, err |-> ""]

\* C4: once Delete(k) has returned, and no add of k has begun since its
\* removal from the shard, k is neither in the LRU shard nor among the hot
\* keys, whatever the RecordKey goroutines and the decay do.
C4_DeleteThenReload ==
    \A k \in GKeys :
        del[k] = "done" => (k \notin Shard(k).cache /\ k \notin DOMAIN hotKeys)

\* C5: a cache.get(k) that starts after cache.add(k, v) has completed, with
\* no eviction, delete or later add of k since, finds k and returns v,
\* whatever the RecordKey goroutines do.
C5_AddVisible ==
    \A t \in DOMAIN pc :
        (IsGet(t) /\ want[t] # NoVal) =>
            \/ pc[t] = "cache_get"
            \/ Returned(t) /\ ret[t] = [value |-> want[t], err |-> ""]

AllFailed(tr) == \A i \in 1..Len(tr) : ~tr[i].ok

\* C9: in a load with a picker whose PickPeer names a remote peer, the
\* primary is asked first, then the peers of ReplicaPeersForKey in list
\* order, each only after all before it failed; the first answer is what Get
\* returns; the getter is called only after the primary and every replica
\* have failed.
C9_PeerFallbackOrder ==
    \A t \in DOMAIN pc :
        IsGet(t) =>
            LET tr == loc[t].tried
                order == <<peers.primary>> \o peers.replicas
            IN  /\ tr # <<>> => (peers.set /\ peers.primary # 0)
                /\ Len(tr) <= Len(order)
                /\ \A i \in 1..Len(tr) :
                      /\ tr[i].peer = order[i]
                      /\ i < Len(tr) => ~tr[i].ok
                /\ (tr # <<>> /\ tr[Len(tr)].ok) =>
                      /\ ~loc[t].ranLoader
                      /\ Returned(t) =>
                            ret[t] = [value |-> PeerValue(tr[Len(tr)].peer), err |-> ""]
                /\ (loc[t].ranLoader /\ peers.set /\ peers.primary # 0) =>
                      (Len(tr) = Len(order) /\ AllFailed(tr))

\* the primary and the first replica failed, the second replica answered,
\* and Get has returned its answer
C9_Witness ==
    \E t \in DOMAIN pc :
        /\ IsGet(t) /\ Returned(t)
        /\ loc[t].tried = << [peer |-> 1, ok |-> FALSE], [peer |-> 1, ok |-> FALSE],
                             [peer |-> 2, ok |-> TRUE] >>
        /\ ret[t] = [value |-> "p2", err |-> ""]
        /\ loads = 0

\* C10: the fn of a load calls the getter if and only if no picker is
\* registered, or PickPeer reports no remote peer, or every peer Get it
\* attempted failed; the error of a peer Get is never what Get returns.
C10_LoaderCondition ==
    \A t \in DOMAIN pc :
        IsGet(t) =>
            /\ loc[t].src \in {"peer", "loader"} =>
                  (loc[t].ranLoader <=>
                      \/ ~peers.set
                      \/ peers.primary = 0
                      \/ (loc[t].tried # <<>> /\ AllFailed(loc[t].tried)))
            /\ Returned(t) => ret[t].err # "peer error"

\* every peer failed, the getter was called and Get has returned its value
C10_Witness ==
    \E t \in DOMAIN pc :
        /\ IsGet(t) /\ Returned(t)
        /\ loc[t].ranLoader
        /\ Len(loc[t].tried) = 3 /\ AllFailed(loc[t].tried)
        /\ ret[t] = [value |-> GetterValue, err |-> ""]

\* the calls of kind rpc with value v that `sent` holds for peer p
CallsTo(sent, rpc, p, v) ==
    { i \in 1..Len(sent) : sent[i] = [rpc |-> rpc, peer |-> p, value |-> v] }

\* `sent` is one call of kind rpc with value v to each peer of
\* ReplicaPeersForKey and nothing else
OnceToEachReplica(sent, rpc, v) ==
    /\ Len(sent) = Len(peers.replicas)
    /\ \A j \in 1..Len(peers.replicas) :
          Cardinality(CallsTo(sent, rpc, peers.replicas[j], v)) = 1

\* C11: when the getter succeeds for k, the value is added to the local
\* cache, and once g.set is through, one peer.Set with the value has been
\* started to each peer of ReplicaPeersForKey(k) (none without a picker);
\* Get returns the value whether these calls have ended or not, and
\* whatever they end with.
C11_ReplicaPropagation ==
    \A t \in DOMAIN pc :
        (IsGet(t) /\ loc[t].ranLoader /\ loc[t].val # NoVal) =>
            /\ pc[t] \in RkPcs \cup {"add_unlock"} =>
                  /\ argKey[t] \in Shard(argKey[t]).cache
                  /\ LruGetNoMove(Shard(argKey[t]), argKey[t]).value = loc[t].val
                  /\ loc[t].sent = <<>>
            /\ pc[t] \in {"do_done", "do_delete", "returned"} =>
                  OnceToEachReplica(loc[t].sent, "Set", loc[t].val)
            /\ Returned(t) => ret[t] = [value |-> loc[t].val, err |-> ""]

\* Get has returned the getter's value while its two calls to the replicas
\* are still in flight
C11_Witness ==
    \E t \in DOMAIN pc :
        /\ IsGet(t) /\ Returned(t) /\ loc[t].ranLoader
        /\ ret[t] = [value |-> GetterValue, err |-> ""]
        /\ Len(loc[t].sent) = 2
        /\ Started(loc[t].sent, argKey[t]) \subseteq rpcs
        /\ Cardinality(rpcs) = 2

IsDelete(t) == loc[t].op = "Delete"

\* C12: Group.Delete(k) removes k from its LRU shard and, when it returns,
\* has removed k from the hot keys and has started one peer.Delete to each
\* peer of ReplicaPeersForKey(k): both replicas with a picker, no call
\* without one.
C12_DeletePropagation ==
    [][\A t \in DOMAIN pc :
          /\ (pc[t] = "idle" /\ IsDelete(t)') =>
                /\ argKey'[t] \notin shards'[ShardIndex(argKey'[t])].cache
                /\ loc'[t].sent = <<>>
          /\ (IsDelete(t) /\ pc[t] = "del_hot" /\ pc'[t] = "returned") =>
                /\ argKey[t] \notin DOMAIN hotKeys'
                /\ OnceToEachReplica(loc'[t].sent, "Delete", NoVal)
                /\ Started(loc'[t].sent, argKey[t]) \subseteq rpcs'
                /\ peers.set => Len(loc'[t].sent) = 2
                /\ ~peers.set => (loc'[t].sent = <<>> /\ rpcs' = rpcs)]_vars

\* with a picker registered, Delete of a key that was cached has returned
\* and its calls to the two replicas are in flight
C12_Witness ==
    \E t \in DOMAIN pc :
        /\ IsDelete(t) /\ Returned(t) /\ peers.set
        /\ loads = 1
        /\ del[argKey[t]] = "done"
        /\ rpcs = { [rpc |-> "Delete", peer |-> 1, key |-> argKey[t], value |-> NoVal],
                    [rpc |-> "Delete", peer |-> 2, key |-> argKey[t], value |-> NoVal] }

IsSetCache(t) == loc[t].op = "SetCache"

\* C13: a replica push (setCache, what the Set handler calls) adds the pair
\* to the local cache and nothing more: none of its steps, from its call to
\* its return, starts a call to a peer, asks a peer or calls the getter.
C13_PushDoesNotPropagate ==
    [][\A t \in DOMAIN pc :
          ((IsSetCache(t) \/ IsSetCache(t)') /\ pc'[t] # pc[t]) =>
              /\ rpcs' = rpcs
              /\ loc'[t].sent = <<>> /\ loc'[t].tried = <<>> /\ ~loc'[t].ranLoader
              /\ loads' = loads
              /\ (pc[t] = "add_lock" /\ pc'[t] # "add_lock"
                    /\ Len(argKey[t]) + Len(loc[t].val) <= PerBytes) =>
                    /\ argKey[t] \in shards'[ShardIndex(argKey[t])].cache
                    /\ LruGetNoMove(shards'[ShardIndex(argKey[t])], argKey[t]).value
                          = loc[t].val]_vars

\* with a picker registered, setCache has returned, the pair is in the
\* cache and no call to a peer has been started
C13_Witness ==
    \E t \in DOMAIN pc :
        /\ IsSetCache(t) /\ Returned(t) /\ peers.set
        /\ loc[t].val = "589"
        /\ stable[argKey[t]] = "589"
        /\ rpcs = {} /\ loads = 0 /\ nOps.Get = 0 /\ nOps.Delete = 0

\* the getter of goroutine t's load has returned an error
GetterFailed(t) == IsGet(t) /\ loc[t].ranLoader /\ loc[t].val = NoVal

C15_EmptyKey ==
    /\ [](\A t \in DOMAIN pc :
             (IsGet(t) /\ argKey[t] = EmptyKey) =>
                 /\ pc[t] = "returned"
                 /\ ret[t].err # "" /\ ret[t].value = ""
                 /\ callOf[t] = 0
                 /\ loc[t] = [LocIdle EXCEPT !.op = "Get"])
    /\ [][\A t \in DOMAIN pc :
             (pc[t] = "idle" /\ IsGet(t)' /\ pc'[t] # "idle" /\ argKey'[t] = EmptyKey) =>
                 /\ pc'[t] = "returned"
                 /\ ret'[t] = [value |-> "", err |-> "key is required"]
                 /\ UNCHANGED <<cacheVars, sfVars, callOf, peers, regCall, rpcs, loads>>]_vars

\* Get of the empty key has returned its error while a value is cached
C15_Witness ==
    \E t \in DOMAIN pc :
        /\ IsGet(t) /\ argKey[t] = EmptyKey /\ Returned(t)
        /\ ret[t].err = "key is required"
        /\ \E k \in GKeys : k \in Shard(k).cache

\* the goroutines that registered the call of key k and have not yet deleted it
Owners(k) == {t \in DOMAIN pc : argKey[t] = k /\ pc[t] \in {"do_fn", "do_done", "do_delete"}}

\* the goroutines executing fn for key k
Executing(k) == {t \in DOMAIN pc : argKey[t] = k /\ pc[t] = "do_fn"}

\* C16: for every key, g.m holds at most one call, at most one goroutine is
\* between registering the call and deleting it, so at most one execution of
\* fn is in progress, and that execution is the one of the call in g.m whose
\* completion has not been signalled.
C16_OneExecutionPerKey ==
    \A k \in SfKeys :
        /\ Cardinality(Owners(k)) <= 1
        /\ Cardinality(Executing(k)) <= 1
        /\ Executing(k) = running[k]
        /\ InFlight(sfM, k) <=> Owners(k) # {}
        /\ \A t \in Owners(k) :
              /\ sfM[k] = callOf[t]
              /\ callOf[t] \in DOMAIN sfCalls
              /\ (pc[t] \in {"do_fn", "do_done"}) <=> (sfCalls[callOf[t]].wg = 1)

\* a second execution for a key is in progress, with a caller waiting for it,
\* after an earlier execution for the same key has returned
C16_Witness ==
    \E t, u, w \in DOMAIN pc :
        /\ t # u /\ argKey[t] = argKey[u] /\ argKey[w] = argKey[t]
        /\ pc[t] = "do_fn"
        /\ Returned(u) /\ ranFn[u] = 1
        /\ pc[w] = "do_wait" /\ callOf[w] = callOf[t]

\* C17: a call Do(key, fn2) made after the completion of an execution for
\* the key has been signalled executes fn2 itself, once, before it returns.
C17_NoReuse ==
    \A t \in DOMAIN pc : (late[t] /\ Returned(t)) => ranFn[t] = 1

\* C18: goroutines that hold the same call called Do with the same key, and
\* no other key of g.m leads to that call; a goroutine that waits for a call
\* not yet completed waits for an execution of fn for its own key; a Do that
\* finds no call for its key in g.m executes its own fn, whatever g.m holds
\* for other keys; a goroutine that executed fn returns what its fn returned.
C18_Independence ==
    /\ [](\A t \in DOMAIN pc :
             /\ callOf[t] # 0 =>
                   /\ \A u \in DOMAIN pc : callOf[u] = callOf[t] => argKey[u] = argKey[t]
                   /\ \A k \in DOMAIN sfM : sfM[k] = callOf[t] => k = argKey[t]
             /\ (pc[t] = "do_wait" /\ ~WgWait(sfCalls[callOf[t]])) =>
                   \E u \in Owners(argKey[t]) : callOf[u] = callOf[t]
             /\ (Returned(t) /\ ranFn[t] = 1) => ret[t] = expect[t])
    /\ [][\A t \in DOMAIN pc :
             (pc[t] = "do_lock" /\ pc'[t] # "do_lock" /\ ~InFlight(sfM, argKey[t])) =>
                 /\ pc'[t] = "do_fn"
                 /\ sfM' = (argKey[t] :> callOf'[t]) @@ sfM
                 /\ callOf'[t] \notin DOMAIN sfCalls]_vars

\* two goroutines with different keys are inside Do at the same time, each
\* has executed its own fn with a different result, and a third goroutine
\* that joined the call of the first key has returned the first one's result
C18_Witness ==
    \E t, u, w \in DOMAIN pc :
        /\ argKey[t] = KeyA /\ argKey[u] = KeyB /\ argKey[w] = KeyA
        /\ pc[t] = "do_delete" /\ pc[u] = "do_delete"
        /\ ranFn[t] = 1 /\ ranFn[u] = 1
        /\ expect[t].err = "" /\ expect[u].err = "failed"
        /\ Returned(w) /\ flight[w] = {t} /\ ret[w] = expect[t]

\* C19: in a detector with threshold T, once RecordKey has been called T+2
\* times for a key with no decay tick in between, the key is hot with the
\* value of the last of these calls: GetHot returns that value and true. A
\* hot key stops being hot only at a decay tick, and its value changes only
\* by a RecordKey call for that key.
C19_Promotion ==
    /\ [](\A k \in HkKeys :
             hkCalls[k] >= threshold + 2 =>
                 GetHot(hotKeys, k) = [value |-> hkLast[k], ok |-> TRUE])
    /\ [][/\ (hkGot' # hkGot /\ hkCalls[hkGot'.key] >= threshold + 2) =>
                 (hkGot'.ok /\ hkGot'.value = hkLast[hkGot'.key])
          /\ \A k \in DOMAIN hotKeys :
                 /\ k \notin DOMAIN hotKeys' => hkTicks' = hkTicks + 1
                 /\ (k \in DOMAIN hotKeys' /\ hotKeys'[k] # hotKeys[k]) =>
                       (hkCalls'[k] = hkCalls[k] + 1 /\ hotKeys'[k] = hkLast'[k])]_vars

\* with the largest threshold, T+2 calls of RecordKey for one key with the
\* same value and no decay tick, after which GetHot returned that value
C19_Witness ==
    /\ threshold = MaxThreshold /\ hkTicks = 0
    /\ hkCalls[KeyA] = threshold + 2
    /\ hkGot = [key |-> KeyA, value |-> "V", ok |-> TRUE]
    /\ hkLast[KeyA] = "V"

\* some other key of the detector shares a counter of the sketch with k, or
\* the other keys together set all the filter bits of k
Colliding(k) ==
    \/ \E j \in HkKeys \ {k} : CmsCellsOf(j) \cap CmsCellsOf(k) # {}
    \/ BloomProbes(k) \subseteq UNION { BloomProbes(j) : j \in HkKeys \ {k} }

\* C20: a RecordKey call for a key whose bits are not all set in the filter
\* sets them and leaves every counter of the sketch and the hot keys
\* unchanged; a key recorded at most twice since construction, in a detector
\* with threshold > 1 and no colliding keys, is not hot.
C20_AdmissionFilter ==
    /\ [](\A k \in HkKeys :
             (hkTicks = 0 /\ hkCalls[k] <= 2 /\ threshold > 1 /\ ~Colliding(k)) =>
                 ~GetHot(hotKeys, k).ok)
    /\ [][\A k \in HkKeys :
             (hkCalls'[k] = hkCalls[k] + 1 /\ ~(BloomProbes(k) \subseteq bfBits)) =>
                 /\ bfBits' = bfBits \cup BloomProbes(k)
                 /\ cmsTable' = cmsTable
                 /\ hotKeys' = hotKeys]_vars

\* a key recorded twice with threshold 2 is in the filter, counted once and
\* not hot, while the other key, recorded three times, is hot
C20_Witness ==
    /\ threshold = 2 /\ hkTicks = 0
    /\ hkCalls[KeyA] = 2 /\ BloomProbes(KeyA) \subseteq bfBits
    /\ CmsCount(cmsTable, KeyA) = 1
    /\ hkGot = [key |-> KeyA, value |-> "", ok |-> FALSE]
    /\ hkCalls[KeyB] = 3 /\ KeyB \in DOMAIN hotKeys

\* C21: every call of Stop returns normally, the second and later ones too
C21_StopIdempotent == hkStop # "panic"

\* C22: the bits of a key whose Add has returned are set in every later
\* state, no step clears a bit, and a Test of a key whose Add had returned
\* when Test was called returns true, whatever the other goroutines add and
\* test meanwhile.
C22_NoFalseNegative ==
    /\ [](\A x \in bfAdded : BfProbes(x) \subseteq bfBits)
    /\ [](\A g \in DOMAIN bfG :
             (bfG[g].pc = "done" /\ bfG[g].op = "Test" /\ bfG[g].pre) => bfG[g].res)
    /\ [][bfBits \subseteq bfBits']_vars

\* a Test of a key added earlier has returned true while the other goroutine
\* is in the middle of an Add of another key, waiting for the mutex
C22_Witness ==
    \E g, h \in DOMAIN bfG :
        /\ bfG[g].pc = "done" /\ bfG[g].op = "Test" /\ bfG[g].pre /\ bfG[g].res
        /\ bfG[h].op = "Add" /\ bfG[h].key # bfG[g].key /\ bfG[h].pc = "lock"
        /\ Cardinality(bfAdded) >= 2

\* C23 as stated: at every point Count(k) is at least the sum of c over the
\* calls Add(k, c) that have returned.
C23_Original == \A k \in SkKeys : SkCount(cmsTable, k) >= cmsTrue[k]

\* C23: as long as Decay has not been called, the count of every key is at
\* least the sum of c over the calls Add(k, c) that have returned, and a call
\* of Count(k) returns at least the sum that held when it was called.
C23_LowerBound ==
    /\ cmsDecays = 0 => \A k \in SkKeys : SkCount(cmsTable, k) >= cmsTrue[k]
    /\ \A g \in DOMAIN cmsG :
          (cmsG[g].pc = "done" /\ cmsG[g].op = "Count" /\ cmsG[g].clean) =>
              cmsG[g].res >= cmsG[g].pre

\* with no Decay so far, Count has returned the exact sum for a key, 3,
\* while the other goroutine is in the middle of an Add that shares a counter
C23_Witness ==
    \E g, h \in DOMAIN cmsG :
        /\ cmsDecays = 0
        /\ cmsG[g].pc = "done" /\ cmsG[g].op = "Count" /\ cmsG[g].clean
        /\ cmsG[g].pre = 3 /\ cmsG[g].res >= 3
        /\ cmsG[h].op = "Add" /\ cmsG[h].pc = "add" /\ cmsG[h].i = 1

\* the values of a sequence are pairwise different
Distinct(q) == \A i, j \in DOMAIN q : i # j => q[i] # q[j]

\* C24: on a ring that is not empty, GetN(key, n) with 1 <= n <= the number
\* of peers added returns exactly n peers, pairwise different, all of them
\* added.
C24_RingCoverage ==
    (ringOut.op = "GetN" /\ Len(ring.keys) > 0
       /\ 1 <= ringOut.n /\ ringOut.n <= Cardinality(ringAdded)) =>
        /\ Len(ringOut.res) = ringOut.n
        /\ Distinct(ringOut.res)
        /\ Range(ringOut.res) \subseteq ringAdded

\* no two virtual nodes have the same hash
NoCollision == \A x, y \in DOMAIN ringHash : ringHash[x] = ringHash[y] => x = y

\* C25: in a pool whose peers include the local node (and whose virtual
\* nodes have different hashes), ReplicaPeersForKey returns a list without
\* the local node, without a peer twice, and of at most
\* defaultReplicaNodeCount = 2 entries.
C25_ReplicaPeers ==
    (ringOut.op = "ReplicaPeersForKey" /\ pool.self \in pool.grpcClients /\ NoCollision) =>
        /\ pool.self \notin Range(ringOut.res)
        /\ Distinct(ringOut.res)
        /\ Len(ringOut.res) <= defaultReplicaNodeCount

\* C26: after any calls of Add the hashes in m.keys are in strictly ascending
\* order, and Get and GetN return only peers that were passed to Add (Get
\* returns "" on the empty ring).
C26_RingOrder ==
    /\ pool.owner = "map" =>
          \A i \in 1..(Len(ring.keys) - 1) : ring.keys[i] < ring.keys[i + 1]
    /\ (ringOut.op \in {"Get", "GetN"}) =>
          Range(ringOut.res) \subseteq
              (ringAdded \cup (IF ringOut.op = "Get" /\ Len(ring.keys) = 0 THEN {""} ELSE {}))


\* C27: RegisterPeers is one-shot: the first call installs the picker it is
\* given and does not panic; every later call on the group panics and leaves
\* the installed picker unchanged.
C27_OneShot ==
    [][regCall'.n # regCall.n =>
          IF regCall.n = 0
          THEN peers' = regCall'.arg /\ ~regCall'.panic
          ELSE regCall'.panic /\ peers' = peers /\ peers.set]_vars

\* a second RegisterPeers, with another picker, has panicked; the first
\* picker is still installed
C27_Witness ==
    /\ regCall.n = 2 /\ regCall.panic
    /\ peers.set /\ regCall.arg # peers


\* C28: in every reachable state, a key is among the hot keys only if its
\* sketch count was at least the promotion threshold at some point since
\* the key last left the hot keys (by demotion or Delete), the moment of
\* leaving included.
C28_HotMembership == \A k \in GKeys : k \in DOMAIN hotKeys => reached[k]


\* C29: a decay tick halves every counter of the sketch and then removes
\* from the hot keys exactly the keys whose count after the halving is below
\* threshold/2 (integer division); the other hot keys stay, with their
\* values, and no key becomes hot.
C29_DecayTick ==
    [][hkTicks' # hkTicks =>
          /\ \A cell \in DOMAIN cmsTable : cmsTable'[cell] = cmsTable[cell] \div 2
          /\ DOMAIN hotKeys' \subseteq DOMAIN hotKeys
          /\ \A k \in DOMAIN hotKeys :
                IF CmsCount(cmsTable', k) < threshold \div 2
                THEN k \notin DOMAIN hotKeys'
                ELSE k \in DOMAIN hotKeys' /\ hotKeys'[k] = hotKeys[k]]_vars

\* the second tick has just run: KeyB, which GetHot had found among the hot
\* keys, is demoted, and KeyA is still hot
C29_Witness ==
    /\ hkTicks = 2 /\ \A k \in HkKeys : hkCalls[k] = 0
    /\ hkGot.key = KeyB /\ hkGot.ok
    /\ KeyB \notin DOMAIN hotKeys
    /\ KeyA \in DOMAIN hotKeys


\* C30: a get of a key that is among the hot keys returns the value stored
\* there in one step, without taking a shard's lock (also while another
\* goroutine holds it), and leaves the shards (recency order, byte
\* counter), the filter, the sketch and the hot keys unchanged and starts
\* no RecordKey.
C30_HotPathReadOnly ==
    [][\A t \in 1..NumThreads :
          (pc[t] = "idle" /\ pc'[t] # "idle" /\ loc'[t].op = "Get"
             /\ argKey'[t] \in DOMAIN hotKeys) =>
              /\ pc'[t] = "returned"
              /\ ret'[t] = [value |-> hotKeys[argKey'[t]], err |-> ""]
              /\ shards' = shards /\ shardMu' = shardMu
              /\ bfBits' = bfBits /\ cmsTable' = cmsTable
              /\ hotKeys' = hotKeys /\ tasks' = tasks]_vars

\* a Get has returned a hot key's value while another goroutine holds the
\* lock of the key's shard
C30_Witness ==
    \E t \in 1..NumThreads :
        /\ IsGet(t) /\ Returned(t) /\ loc[t].src = "hot"
        /\ argKey[t] \in DOMAIN hotKeys /\ ret[t].value = hotKeys[argKey[t]]
        /\ shardMu[ShardIndex(argKey[t])] \notin {0, t}


\* the sum of c over the calls Add(k, c) that have returned and count in `cell`
CellTrue(cell) ==
    LET S == { k \in SkKeys : SkCell(k, cell[1]) = cell }
    IN  (IF KeyA \in S THEN cmsTrue[KeyA] ELSE 0) + (IF KeyB \in S THEN cmsTrue[KeyB] ELSE 0)

\* no call of Add or Decay is under way
CmsQuiet == \A g \in DOMAIN cmsG : cmsG[g].pc \notin {"add", "load", "store"}

\* C31: Decay halves each cell atomically with respect to Add, so that no
\* increment is lost: once one Decay and the Adds running with it have
\* returned, every cell holds the halved sum of the increments made before
\* its halving plus the increments made after it, hence at least half (integer
\* division) of the sum S of all increments to the cell, and at most S.
C31_DecayAtomic ==
    (CmsQuiet /\ cmsDecays = 1) =>
        \A cell \in SkCells :
            /\ cmsTable[cell] >= CellTrue(cell) \div 2
            /\ cmsTable[cell] <= CellTrue(cell)


\* the recency order once Add(k, v) has inserted or updated its entry, before
\* its eviction loop
Inserted(ll, k, v) ==
    <<[key |-> k, value |-> v]>> \o SelectSeq(ll, LAMBDA e : e.key # k)

\* the last r entries of ll, the last one first
Backwards(ll, r) == [i \in 1..r |-> ll[Len(ll) + 1 - i]]

\* C32: an Add on a shard with max_bytes > 0 removes entries from the
\* least-recently-used end, one at a time, exactly until the byte counter
\* is within max_bytes or the shard is empty; the removed
\* entries leave the order and the map, and the eviction callback is called
\* once for each of them, in that order, with its key and value; with
\* max_bytes = 0 nothing is evicted.
C32_EvictionOrder ==
    [][lastOp'.op = "Add" =>
          \A L \in {Inserted(lru.ll, lastOp'.key, lastOp'.value)} :
             \A r \in {Len(L) - Len(lru'.ll)} :
                /\ r >= 0
                /\ lru'.ll = SubSeq(L, 1, Len(L) - r)
                /\ lru'.cache = { L[i].key : i \in 1..(Len(L) - r) }
                /\ lru.maxBytes = 0 => r = 0
                /\ lru.maxBytes > 0 =>
                      /\ lru'.nbytes <= lru.maxBytes
                      /\ r > 0 => lru'.nbytes + EntryBytes(L[Len(L) - r + 1]) > lru.maxBytes
                /\ lru'.evicted = IF lru.onEvicted THEN Backwards(L, r) ELSE <<>>]_vars

\* an Add has evicted two entries, the older one first, and called the
\* callback for both
C32_Witness ==
    /\ lastOp.op = "Add" /\ lru.maxBytes > 0 /\ lru.onEvicted
    /\ Len(lru.evicted) = 2
    /\ lru.evicted[2].key = lastOp.key


\* the position of the ring that owns a hash: the first one whose hash is
\* not below it, or the first position of the ring
OwnerPos(keys, hash) ==
    IF \A i \in DOMAIN keys : keys[i] < hash THEN 1
    ELSE CHOOSE i \in DOMAIN keys :
             keys[i] >= hash /\ \A j \in DOMAIN keys : keys[j] >= hash => i <= j

\* the peers met on one turn of the ring from position p, in that order
Turn(m, p) ==
    [i \in 1..Len(m.keys) |-> m.hashMap[m.keys[((p + i - 2) % Len(m.keys)) + 1]]]

\* the positions of a sequence that hold a value for the first time
FirstMet(q) == { i \in DOMAIN q : \A j \in 1..(i - 1) : q[j] # q[i] }

\* C33: on a ring that is not empty and for n >= 1, the first element of
\* GetN(key, n) is Get(key), the peer of the first ring position whose hash
\* is not below hash(key) (the first position of the ring if there is none),
\* and the elements of GetN(key, n) are, in order, the first peers met for
\* the first time when walking the ring from that position.
C33_PrimaryFirst ==
    (ringOut.op = "GetN" /\ Len(ring.keys) > 0 /\ ringOut.n >= 1) =>
        \A p \in {OwnerPos(ring.keys, ringOut.hash)} :
           \A turn \in {Turn(ring, p)} :
              /\ Len(ringOut.res) >= 1
              /\ ringOut.res[1] = MapGet(ring, ringOut.hash)
              /\ ringOut.res[1] = ring.hashMap[ring.keys[p]]
              /\ Len(ringOut.res) <= Cardinality(FirstMet(turn))
              /\ \A j \in DOMAIN ringOut.res :
                    \E i \in FirstMet(turn) :
                        /\ turn[i] = ringOut.res[j]
                        /\ Cardinality({ x \in FirstMet(turn) : x <= i }) = j

\* GetN has returned three peers for a key whose hash is above every hash of
\* the ring: the walk started at the first position
C33_Witness ==
    /\ ringOut.op = "GetN" /\ Len(ringOut.res) = 3
    /\ \A i \in DOMAIN ring.keys : ring.keys[i] < ringOut.hash
    /\ ring.replicas = 1 /\ Len(ring.keys) = 4


\* C34: once Stop has returned, the decay goroutine eventually ends (or the
\* process has ended); once the goroutine has ended, no step halves a counter
\* or removes a hot key, and RecordKey and GetHot can still be called.
C34_StopEndsDecay ==
    /\ (hkStop = "returned") ~> (hkTask = "ended" \/ ~Alive)
    /\ [][hkTask = "ended" =>
             /\ hkTicks' = hkTicks
             /\ \A cell \in DOMAIN cmsTable : cmsTable'[cell] >= cmsTable[cell]
             /\ DOMAIN hotKeys \subseteq DOMAIN hotKeys']_vars
    /\ []((hkTask = "ended" /\ Alive) =>
             /\ ENABLED HkGetHot(KeyA)
             /\ hkCalls[KeyA] < MaxRecords => ENABLED HkRecordKey(KeyA, "V"))

\* the goroutine has ended after a tick, and GetHot has then found the key
\* that the RecordKey calls since that tick made hot
C34_Witness ==
    /\ hkTask = "ended" /\ hkStop = "returned" /\ hkTicks = 1
    /\ hkCalls[KeyA] >= 2
    /\ hkGot.key = KeyA /\ hkGot.ok /\ hkGot.value = hkLast[KeyA]


\* C35: cache.add holds the shard's lock around the LRU Add only: a goroutine
\* that is in the RecordKey of cache.add (testing or setting the filter,
\* adding to the sketch, storing among the hot keys) does not hold the lock of
\* a shard.
C35_RecordOutsideLock ==
    \A t \in 1..NumThreads :
        pc[t] \in RkPcs => \A i \in DOMAIN shardMu : shardMu[i] # t


\* C36: after the client's Delete(group, k), the Delete requests that the
\* nodes send each other come to an end: from some moment on, no Delete
\* request for k is in flight to any node.
C36_Quiesces == <>[](\A n \in ClNodes : clNet[n] = 0)


\* no goroutine is inside an operation of the group, no RecordKey goroutine is
\* pending and the decay goroutine is between two ticks
GroupQuiet ==
    /\ \A t \in DOMAIN pc : pc[t] \in {"idle", "returned"}
    /\ tasks = EmptyBag
    /\ decay.at = "idle"

\* C37: a key among the hot keys is in its LRU shard, whenever no add or
\* delete of it is in progress; here, whenever nothing at all is in progress
\* on the group and Delete was never called, so that a key can have left its
\* shard through the eviction loop of Add only.
C37_HotSubset ==
    \A k \in GKeys :
        (GroupQuiet /\ nOps.Delete = 0 /\ k \in DOMAIN hotKeys) => k \in Shard(k).cache


\* the bytes resident in the shards of a set
RECURSIVE ResidentBytes(_)
ResidentBytes(S) ==
    IF S = {} THEN 0
    ELSE LET i == CHOOSE j \in S : TRUE IN shards[i].nbytes + ResidentBytes(S \ {i})

\* C38: in a group created with cacheBytes > 0, the bytes resident in all
\* the shards together never exceed cacheBytes.
C38_GroupBudget ==
    cacheBytes > 0 => ResidentBytes(DOMAIN shards) <= cacheBytes


\* the calls of Set to the replicas among the calls in flight
SetCalls(calls) == { e \in calls : e.rpc = "Set" }

\* the group as NewGroup left it: nothing in the shards, among the hot keys,
\* in the filter or in the sketch
Untouched ==
    /\ \A i \in DOMAIN shards : shards[i].cache = {} /\ shards[i].nbytes = 0
    /\ hotKeys = <<>>
    /\ bfBits = {}
    /\ \A cell \in DOMAIN cmsTable : cmsTable[cell] = 0

\* C39: a load that a peer satisfied leaves the shards, the hot keys, the
\* filter and the sketch as they were and starts no Set to a replica: no step
\* of a Get whose value came from a peer changes any of them.  So, as long as
\* the getter was never called, the group is as NewGroup left it, no Set is
\* in flight, and every Get that returned a value asked a peer for it, the
\* later ones as the first.
C39_PeerServed ==
    /\ [][\A t \in DOMAIN pc :
             (IsGet(t) /\ (pc'[t] # pc[t] \/ loc'[t] # loc[t])
                       /\ (loc[t].src = "peer" \/ loc'[t].src = "peer")) =>
                 /\ shards' = shards /\ hotKeys' = hotKeys
                 /\ bfBits' = bfBits /\ cmsTable' = cmsTable
                 /\ SetCalls(rpcs') \subseteq SetCalls(rpcs)]_vars
    /\ [](loads = 0 =>
             /\ Untouched
             /\ SetCalls(rpcs) = {}
             /\ \A t \in DOMAIN pc :
                   (Returned(t) /\ IsGet(t) /\ ret[t].err = "") =>
                       /\ loc[t].src = "peer"
                       /\ loc[t].tried # <<>>
                       /\ loc[t].tried[Len(loc[t].tried)].ok)

\* the third Get in a row that a peer served, this time a replica
C39_Witness ==
    /\ nOps.Get = 3 /\ loads = 0
    /\ Returned(1) /\ IsGet(1) /\ loc[1].src = "peer"
    /\ Len(loc[1].tried) = 2
    /\ ret[1].err = ""


\* C40: no goroutine waits forever: whatever the interleaving of the Gets,
\* Deletes, setCaches, RecordKey goroutines and decay ticks, every operation
\* that was called returns, the Get of a leader and of a coalesced waiter
\* included.  The calls being finitely many, this is: from some moment on no
\* goroutine is inside an operation.
C40_NoWaitForever == <>[](\A t \in DOMAIN pc : pc[t] \in {"idle", "returned"})

\* two overlapping Gets, one of which waited for the other's load, a Delete,
\* a setCache and a decay tick, all of them over
C40_Witness ==
    /\ \A t \in DOMAIN pc : pc[t] \in {"idle", "returned"}
    /\ nOps = [Get |-> 2, SetCache |-> 1, Delete |-> 1]
    /\ \E t \in DOMAIN pc : Returned(t) /\ IsGet(t) /\ loc[t].src = "shared"
    /\ decay.ticks = 1 /\ decay.at = "idle"
    /\ tasks = EmptyBag

====
